---- MODULE Spec2Model ----
(***************************************************************************)
(* A model of the sensitive-data masking pipeline of                       *)
(* financial_digest_emailer (src/src/data_masking.py).                     *)
(*                                                                         *)
(* Python strings are sequences of one-character strings, so that slicing, *)
(* length, membership and splitting can be computed.  A Python value is a  *)
(* record [t |-> type tag, v |-> payload]; a dict's payload is the         *)
(* sequence of its <<key, value>> items in insertion order.  A call        *)
(* returns [exc |-> "none", val |-> value] or [exc |-> the exception       *)
(* raised].                                                                *)
(***************************************************************************)
EXTENDS Integers, Sequences, FiniteSets, TLC

VARIABLES op, arg, pc, ret, accumulator, tokens, ncalls

\* the objects of the interpreter's heap, and the caller's reference to its record
VARIABLES heap, root

heapVars == <<heap, root>>

\* the concurrent calls of the masker, and the sets made by masked_fields = set()
VARIABLES threads, accs

threadVars == <<threads, accs>>

\* the in-memory store of notifications of digest_builder
VARIABLES NOTIFICATIONS_STORE

\* ai_insights: the module's client, the ANTHROPIC_API_KEY of the environment,
\* the locals digest_summary and prompt of a generate_* call, and the calls
\* of client.messages.create that the call has made
VARIABLES client, environ, digest_summary, prompt, sent

insightVars == <<client, environ, digest_summary, prompt, sent>>

\* what the calls of the masker on values leave alone
elsewhere == <<heapVars, threadVars, NOTIFICATIONS_STORE, insightVars>>

vars == <<op, arg, pc, ret, accumulator, tokens, ncalls, heapVars, threadVars,
          NOTIFICATIONS_STORE, insightVars>>

-----------------------------------------------------------------------------
(* Python values *)

PyStr(s) == [t |-> "str", v |-> s]
PyInt(n) == [t |-> "int", v |-> n]
PyBool(b) == [t |-> "bool", v |-> b]
PyNone == [t |-> "none", v |-> 0]
PyList(items) == [t |-> "list", v |-> items]
PyDict(items) == [t |-> "dict", v |-> items]

IsStr(x) == x.t = "str"

\* a == b for two values of the record domain (no mixed int/bool comparisons arise)
PyEq(a, b) == a.t = b.t /\ a.v = b.v

\* "not x": the empty string, 0, False, None and the empty containers are falsy
Falsy(x) ==
    CASE x.t = "str" -> Len(x.v) = 0
      [] x.t = "int" -> x.v = 0
      [] x.t = "bool" -> ~x.v
      [] x.t = "none" -> TRUE
      [] x.t = "list" -> Len(x.v) = 0
      [] x.t = "dict" -> Len(x.v) = 0

\* "c in x" for a one-character string c: a substring test on a string, an
\* element test on a list, a key test on a dict
Contains(x, c) ==
    CASE x.t = "str" -> \E i \in 1..Len(x.v) : x.v[i] = c
      [] x.t = "list" -> \E i \in 1..Len(x.v) : PyEq(x.v[i], PyStr(<<c>>))
      [] x.t = "dict" -> \E i \in 1..Len(x.v) : x.v[i][1] = c

Ok(x) == [exc |-> "none", val |-> x]
Raise(e) == [exc |-> e, val |-> PyNone]

-----------------------------------------------------------------------------
(* character classes of the patterns and of str.split() *)

Digits == {"0", "1", "2", "3", "4", "5", "6", "7", "8", "9"}
Upper == {"A", "B", "C", "D", "E", "F", "G", "H", "I", "J", "K", "L", "M",
          "N", "O", "P", "Q", "R", "S", "T", "U", "V", "W", "X", "Y", "Z"}
Lower == {"a", "b", "c", "d", "e", "f", "g", "h", "i", "j", "k", "l", "m",
          "n", "o", "p", "q", "r", "s", "t", "u", "v", "w", "x", "y", "z"}
Letters == Upper \cup Lower
Whitespace == {" ", "\t", "\n", "\r", "\f"}

AllIn(s, class) == \A i \in 1..Len(s) : s[i] \in class

\* s[-n:]
LastN(s, n) == IF Len(s) <= n THEN s ELSE SubSeq(s, Len(s) - n + 1, Len(s))

\* c * n
Repeat(c, n) == [i \in 1..n |-> c]

\* re.compile(r'ACC\d+').match: the pattern at the start of s, anything after it
ACCOUNT_NUMBER_PATTERN_match(s) ==
    /\ Len(s) >= 4
    /\ SubSeq(s, 1, 3) = <<"A", "C", "C">>
    /\ s[4] \in Digits

\* re.compile(r'ACC\d+').fullmatch
ACCOUNT_NUMBER_PATTERN(s) ==
    /\ Len(s) >= 4
    /\ SubSeq(s, 1, 3) = <<"A", "C", "C">>
    /\ AllIn(SubSeq(s, 4, Len(s)), Digits)

\* re.compile(r'C\d+').search: the pattern anywhere in s
CLIENT_ID_PATTERN_search(s) ==
    \E i \in 1..(Len(s) - 1) : s[i] = "C" /\ s[i + 1] \in Digits

\* re.compile(r'C\d+').fullmatch
CLIENT_ID_PATTERN(s) ==
    /\ Len(s) >= 2
    /\ s[1] = "C"
    /\ AllIn(SubSeq(s, 2, Len(s)), Digits)

\* re.compile(r'[a-zA-Z0-9._%+-]+@[a-zA-Z0-9.-]+\.[a-zA-Z]{2,}').fullmatch
EMAIL_PATTERN(s) ==
    \E i \in 2..Len(s) : \E j \in (i + 2)..(Len(s) - 2) :
        /\ s[i] = "@"
        /\ AllIn(SubSeq(s, 1, i - 1), Letters \cup Digits \cup {".", "_", "%", "+", "-"})
        /\ AllIn(SubSeq(s, i + 1, j - 1), Letters \cup Digits \cup {".", "-"})
        /\ s[j] = "."
        /\ AllIn(SubSeq(s, j + 1, Len(s)), Letters)

SENSITIVE_FIELDS == {"account_number", "client_id", "email", "recipient_email"}

PARTIAL_MASK_FIELDS == {"client_name"}

-----------------------------------------------------------------------------
(* hashlib.md5(value.encode()).hexdigest() *)

\* The characters the model's strings are built from, in code-point order.
CharTable ==
    <<"\t", "\n", "\f", "\r", " ", "%", "*", "+", "-", ".",
      "0", "1", "2", "3", "4", "5", "6", "7", "8", "9", "@",
      "A", "B", "C", "D", "E", "F", "G", "H", "I", "J", "K", "L", "M",
      "N", "O", "P", "Q", "R", "S", "T", "U", "V", "W", "X", "Y", "Z", "_",
      "a", "b", "c", "d", "e", "f", "g", "h", "i", "j", "k", "l", "m",
      "n", "o", "p", "q", "r", "s", "t", "u", "v", "w", "x", "y", "z">>

CharCode ==
    [c \in {CharTable[i] : i \in 1..Len(CharTable)} |->
        CHOOSE i \in 1..Len(CharTable) : CharTable[i] = c]

Ord(c) == CharCode[c]

HexDigits ==
    <<"0", "1", "2", "3", "4", "5", "6", "7", "8", "9", "a", "b", "c", "d", "e", "f">>

RECURSIVE Absorb(_, _)
Absorb(s, h) ==
    IF Len(s) = 0 THEN h
    ELSE Absorb(Tail(s), (h * 131 + Ord(Head(s)) + 1) % 1000003)

\* MD5 is library code.  It is modelled by a fixed digest of the characters
\* of the string into 32 lower-case hexadecimal digits: like MD5 it reads
\* nothing but the string, and unlike MD5 it is not collision resistant, so
\* nothing below rests on two strings having different digests.
md5_hexdigest(s) ==
    LET h == Absorb(s, 7919) IN
    [i \in 1..32 |-> HexDigits[(((h * (2 * i + 1) + i * i) \div 7) % 16) + 1]]

-----------------------------------------------------------------------------
(* the field transforms *)

\* a hash_value salted with the number of the call
hash_value_salted(value) ==
    IF Falsy(value) THEN Ok(value)
    ELSE IF ~IsStr(value) THEN Raise("AttributeError")
    ELSE Ok(PyStr(SubSeq(md5_hexdigest(value.v \o <<HexDigits[(ncalls % 16) + 1]>>), 1, 8)))

\* def hash_value(value): the first 8 characters of the digest; a falsy
\* value is returned as it is; any other non-string has no .encode()
hash_value(value) ==
    IF Falsy(value) THEN Ok(value)
    ELSE IF ~IsStr(value) THEN Raise("AttributeError")
    ELSE Ok(PyStr(SubSeq(md5_hexdigest(value.v), 1, 8)))

\* a mask_account_number whose short-string test is len(account_number) < 4
mask_account_number_lt(account_number) ==
    IF Falsy(account_number) THEN Ok(account_number)
    ELSE IF account_number.t \in {"int", "bool"} THEN Raise("TypeError")
    ELSE IF Len(account_number.v) < 4 THEN Ok(PyStr(<<"*", "*", "*", "*">>))
    ELSE IF ~IsStr(account_number) THEN Raise("TypeError")
    ELSE Ok(PyStr(Repeat("X", Len(account_number.v) - 4) \o LastN(account_number.v, 4)))

\* a mask_account_number whose filler is one 'X' too long
mask_account_number_long(account_number) ==
    IF Falsy(account_number) THEN Ok(account_number)
    ELSE IF account_number.t \in {"int", "bool"} THEN Raise("TypeError")
    ELSE IF Len(account_number.v) <= 4 THEN Ok(PyStr(<<"*", "*", "*", "*">>))
    ELSE IF ~IsStr(account_number) THEN Raise("TypeError")
    ELSE Ok(PyStr(Repeat("X", Len(account_number.v) - 3) \o LastN(account_number.v, 4)))

\* def mask_account_number(account_number): len() raises TypeError on a
\* number; a list or dict of more than 4 items cannot be added to a string
mask_account_number(account_number) ==
    IF Falsy(account_number) THEN Ok(account_number)
    ELSE IF account_number.t \in {"int", "bool"} THEN Raise("TypeError")
    ELSE IF Len(account_number.v) <= 4 THEN Ok(PyStr(<<"*", "*", "*", "*">>))
    ELSE IF ~IsStr(account_number) THEN Raise("TypeError")
    ELSE Ok(PyStr(Repeat("X", Len(account_number.v) - 4) \o LastN(account_number.v, 4)))

\* email.rsplit('@', 1): the index of the last '@'
LastAt(s) == CHOOSE i \in 1..Len(s) : s[i] = "@" /\ \A j \in (i + 1)..Len(s) : s[j] # "@"

\* email.split('@', 1): the index of the first '@'
FirstAt(s) == CHOOSE i \in 1..Len(s) : s[i] = "@" /\ \A j \in 1..(i - 1) : s[j] # "@"

\* def mask_email(email): "in" raises TypeError on a number; a list or dict
\* that holds '@' has no .split()
mask_email(email) ==
    IF Falsy(email) THEN Ok(email)
    ELSE IF email.t \in {"int", "bool"} THEN Raise("TypeError")
    ELSE IF ~Contains(email, "@") THEN Ok(email)
    ELSE IF ~IsStr(email) THEN Raise("AttributeError")
    ELSE LET at == FirstAt(email.v)
             username == SubSeq(email.v, 1, at - 1)
             domain == SubSeq(email.v, at + 1, Len(email.v))
             masked_username ==
                 IF Len(username) <= 2 THEN <<"*", "*">>
                 ELSE <<username[1]>> \o Repeat("*", Len(username) - 2)
                      \o <<username[Len(username)]>>
         IN  Ok(PyStr(masked_username \o <<"@">> \o domain))

\* str.split() with no separator: the maximal runs of non-whitespace characters
RECURSIVE SplitFrom(_, _, _)
SplitFrom(s, i, cur) ==
    LET flush == IF Len(cur) = 0 THEN <<>> ELSE <<cur>> IN
    IF i > Len(s) THEN flush
    ELSE IF s[i] \in Whitespace THEN flush \o SplitFrom(s, i + 1, <<>>)
    ELSE SplitFrom(s, i + 1, Append(cur, s[i]))

split(s) == SplitFrom(s, 1, <<>>)

\* def mask_client_name(name): a name without ' ' is returned as it is;
\* parts[0] raises IndexError when the name is all whitespace
mask_client_name(name) ==
    IF Falsy(name) THEN Ok(name)
    ELSE IF name.t \in {"int", "bool"} THEN Raise("TypeError")
    ELSE IF ~Contains(name, " ") THEN Ok(name)
    ELSE IF ~IsStr(name) THEN Raise("AttributeError")
    ELSE LET parts == split(name.v) IN
         IF Len(parts) = 1 THEN Ok(PyStr(<<parts[1][1]>> \o <<"*", "*", "*">>))
         ELSE IF Len(parts) = 0 THEN Raise("IndexError")
         ELSE Ok(PyStr(<<parts[1][1], ".", " ">> \o parts[Len(parts)]))

-----------------------------------------------------------------------------
(* the recursive masker *)

\* The masked_fields argument is <<>> for None and <<S>> for the set S.  A
\* call returns exc, val and mf, the accumulator as the call left it.
Done(x, mf) == [exc |-> "none", val |-> x, mf |-> mf]
Lift(r, mf) == [exc |-> r.exc, val |-> r.val, mf |-> mf]

\* the element of a set of one element: {e(x) : x \in {v}} binds x to the
\* value v once, as an assignment does
Only(S) == CHOOSE x \in S : TRUE

RECURSIVE mask_sensitive_data(_, _)
RECURSIVE mask_items(_, _)
RECURSIVE mask_entries(_, _)

\* def mask_dict(data_dict, masked_fields)
mask_dict(data_dict, masked_fields) ==
    Only({IF r.exc # "none" THEN r ELSE Done(PyDict(r.val), r.mf) :
             r \in {mask_entries(data_dict.v, masked_fields)}})

\* a loop body in which a value that looks like an account number is masked
\* as one, whatever its key
mask_entries_by_value(items, masked_fields) ==
    IF Len(items) = 0 THEN Done(<<>>, masked_fields)
    ELSE LET key == Head(items)[1]
             value == Head(items)[2]
             first ==
                 IF IsStr(value) /\ ACCOUNT_NUMBER_PATTERN(value.v) THEN
                     Lift(mask_account_number(value), masked_fields \cup {key})
                 ELSE IF key \in SENSITIVE_FIELDS THEN
                     LET r == IF key = "account_number" THEN mask_account_number(value)
                              ELSE IF key = "email" \/ key = "recipient_email"
                                   THEN mask_email(value)
                              ELSE hash_value(value)
                     IN  Lift(r, IF r.exc = "none" THEN masked_fields \cup {key}
                                 ELSE masked_fields)
                 ELSE IF key \in PARTIAL_MASK_FIELDS THEN
                     LET r == mask_client_name(value)
                     IN  Lift(r, IF r.exc = "none" THEN masked_fields \cup {key}
                                 ELSE masked_fields)
                 ELSE mask_sensitive_data(value, <<masked_fields>>)
         IN  IF first.exc # "none" THEN first
             ELSE LET rest == mask_entries(Tail(items), first.mf) IN
                  IF rest.exc # "none" THEN rest
                  ELSE Done(<<<<key, first.val>>>> \o rest.val, rest.mf)

\* mask_dict's loop over the items, in order: no item, one item (the body of
\* the loop: the key alone selects the branch, and masked_fields.add(key)
\* follows the transform), or the first half of the items and then the rest
mask_entries(items, masked_fields) ==
    IF Len(items) = 0 THEN Done(<<>>, masked_fields)
    ELSE IF Len(items) = 1 THEN
        Only({
         LET key == item[1]
             value == item[2]
         IN  Only({IF first.exc # "none" THEN first
                   ELSE Done(<<<<key, first.val>>>>, first.mf) :
                      first \in
                         IF key \in SENSITIVE_FIELDS THEN
                             {Lift(r, IF r.exc = "none" THEN mf \cup {key} ELSE mf) :
                                 r \in {IF key = "account_number"
                                        THEN mask_account_number(value)
                                        ELSE IF key = "email" \/ key = "recipient_email"
                                             THEN mask_email(value)
                                        ELSE hash_value(value)}}
                         ELSE IF key \in PARTIAL_MASK_FIELDS THEN
                             {Lift(r, IF r.exc = "none" THEN mf \cup {key} ELSE mf) :
                                 r \in {mask_client_name(value)}}
                         ELSE {mask_sensitive_data(value, <<mf>>)}}) :
            item \in {items[1]}, mf \in {masked_fields}})
    ELSE Only({IF first.exc # "none" THEN first
               ELSE Only({IF rest.exc # "none" THEN rest
                          ELSE Done(first.val \o rest.val, rest.mf) :
                             rest \in {mask_entries(SubSeq(items, Len(items) \div 2 + 1,
                                                   Len(items)), first.mf)}}) :
                  first \in {mask_entries(SubSeq(items, 1, Len(items) \div 2),
                                          masked_fields)}})

\* a list branch that returns the items as they are
mask_items_untraversed(items, masked_fields) == Done(items, masked_fields)

\* [mask_sensitive_data(item, masked_fields) for item in data]: no item, one
\* item, or the first half of the items and then the rest
mask_items(items, masked_fields) ==
    IF Len(items) = 0 THEN Done(<<>>, masked_fields)
    ELSE IF Len(items) = 1 THEN
        Only({IF first.exc # "none" THEN first ELSE Done(<<first.val>>, first.mf) :
                 first \in {mask_sensitive_data(items[1], <<masked_fields>>)}})
    ELSE Only({IF first.exc # "none" THEN first
               ELSE Only({IF rest.exc # "none" THEN rest
                          ELSE Done(first.val \o rest.val, rest.mf) :
                             rest \in {mask_items(SubSeq(items, Len(items) \div 2 + 1,
                                                   Len(items)), first.mf)}}) :
                  first \in {mask_items(SubSeq(items, 1, Len(items) \div 2),
                                        masked_fields)}})

\* def mask_sensitive_data(data, masked_fields=None)
mask_sensitive_data(data, masked_fields) ==
    LET mf == IF Len(masked_fields) = 0 THEN {} ELSE masked_fields[1] IN
    IF data.t = "dict" THEN mask_dict(data, mf)
    ELSE IF data.t = "list" THEN
        Only({IF r.exc # "none" THEN r ELSE Done(PyList(r.val), r.mf) :
                 r \in {mask_items(data.v, mf)}})
    ELSE IF data.t = "str" THEN
        IF ACCOUNT_NUMBER_PATTERN(data.v) THEN Lift(mask_account_number(data), mf)
        ELSE IF CLIENT_ID_PATTERN(data.v) THEN Lift(hash_value(data), mf)
        ELSE IF EMAIL_PATTERN(data.v) THEN Lift(mask_email(data), mf)
        ELSE Done(data, mf)
    ELSE Done(data, mf)

-----------------------------------------------------------------------------
(* the masker on the heap: which containers it reads, allocates and writes *)

\* A dict or list is an object heap[a]; its items are cells: a string,
\* number, boolean or None itself (immutable), or a reference to an object.
Ref(a) == [t |-> "ref", v |-> a]

IsRef(cell) == cell.t = "ref"

\* the value that a cell stands for
RECURSIVE Load(_, _)
Load(h, cell) ==
    IF ~IsRef(cell) THEN cell
    ELSE LET o == h[cell.v] IN
         [t |-> o.t,
          v |-> [i \in 1..Len(o.v) |->
                    IF o.t = "dict" THEN <<o.v[i][1], Load(h, o.v[i][2])>>
                    ELSE Load(h, o.v[i])]]

\* result[key] = cell on the items of a dict: an existing key keeps its place
SetItem(items, key, cell) ==
    IF \E i \in 1..Len(items) : items[i][1] = key
    THEN [i \in 1..Len(items) |-> IF items[i][1] = key THEN <<key, cell>> ELSE items[i]]
    ELSE Append(items, <<key, cell>>)

Returns(h, x, mf) == [h |-> h, exc |-> "none", val |-> x, mf |-> mf]

RECURSIVE mask_sensitive_data_at(_, _, _)
RECURSIVE mask_dict_loop(_, _, _, _, _)
RECURSIVE mask_list_loop(_, _, _, _, _)

\* a mask_dict that writes result[key] into data_dict itself and returns it
mask_dict_in_place(h, data_dict, masked_fields) ==
    mask_dict_loop(h, data_dict, 1, data_dict, masked_fields)

\* def mask_dict: result = {} is a new object, filled by the loop
mask_dict_at(h, data_dict, masked_fields) ==
    mask_dict_loop(Append(h, [t |-> "dict", v |-> <<>>]), data_dict, 1,
                   Len(h) + 1, masked_fields)

\* the loop of mask_dict from the i-th item of data_dict on.  A transform
\* that returns its argument returns the same object.
mask_dict_loop(h, data_dict, i, result, masked_fields) ==
    IF i > Len(h[data_dict].v) THEN Returns(h, Ref(result), masked_fields)
    ELSE LET key == h[data_dict].v[i][1]
             value == h[data_dict].v[i][2]
             first ==
                 IF key \in SENSITIVE_FIELDS \cup PARTIAL_MASK_FIELDS THEN
                     LET x == Load(h, value)
                         r == IF key \in PARTIAL_MASK_FIELDS THEN mask_client_name(x)
                              ELSE IF key = "account_number" THEN mask_account_number(x)
                              ELSE IF key = "email" \/ key = "recipient_email"
                                   THEN mask_email(x)
                              ELSE hash_value(x)
                     IN  [h |-> h, exc |-> r.exc,
                          val |-> IF r.exc = "none" /\ r.val = x THEN value ELSE r.val,
                          mf |-> IF r.exc = "none" THEN masked_fields \cup {key}
                                 ELSE masked_fields]
                 ELSE mask_sensitive_data_at(h, value, masked_fields)
         IN  IF first.exc # "none" THEN first
             ELSE mask_dict_loop(
                      [first.h EXCEPT ![result].v = SetItem(@, key, first.val)],
                      data_dict, i + 1, result, first.mf)

\* [mask_sensitive_data(item, masked_fields) for item in data] from the
\* i-th item on: the comprehension appends to a new list
mask_list_loop(h, data, i, result, masked_fields) ==
    IF i > Len(h[data].v) THEN Returns(h, Ref(result), masked_fields)
    ELSE LET first == mask_sensitive_data_at(h, h[data].v[i], masked_fields) IN
         IF first.exc # "none" THEN first
         ELSE mask_list_loop([first.h EXCEPT ![result].v = Append(@, first.val)],
                             data, i + 1, result, first.mf)

\* def mask_sensitive_data, data a cell of the heap h
mask_sensitive_data_at(h, data, masked_fields) ==
    IF IsRef(data) /\ h[data.v].t = "dict" THEN mask_dict_at(h, data.v, masked_fields)
    ELSE IF IsRef(data) THEN
        mask_list_loop(Append(h, [t |-> "list", v |-> <<>>]), data.v, 1,
                       Len(h) + 1, masked_fields)
    ELSE LET r == mask_sensitive_data(data, <<masked_fields>>) IN
         [h |-> h, exc |-> r.exc, val |-> r.val, mf |-> r.mf]

-----------------------------------------------------------------------------
(* the inputs *)

\* the longest string drawn over an alphabet
MaxStrLen == 6
\* the most nodes (containers and scalars) of a record
MaxNodes == 3
\* the most calls of one run that the token history follows
MaxCalls == 2

\* "", "ACC123456", "ACC12AB", "C002", "jo@x.com", "bob@x.io",
\* "Bob Williams", " "
LeafStrings ==
    {<<>>,
     <<"A", "C", "C", "1", "2", "3", "4", "5", "6">>,
     <<"A", "C", "C", "1", "2", "A", "B">>,
     <<"C", "0", "0", "2">>,
     <<"j", "o", "@", "x", ".", "c", "o", "m">>,
     <<"b", "o", "b", "@", "x", ".", "i", "o">>,
     <<"B", "o", "b", " ", "W", "i", "l", "l", "i", "a", "m", "s">>,
     <<" ">>}

\* the values of one node: the scalars of a record and the empty containers
Scalars ==
    {PyStr(s) : s \in LeafStrings} \cup {PyInt(12345), PyNone}
    \cup {PyList(<<>>), PyDict(<<>>)}

FieldNames == SENSITIVE_FIELDS \cup PARTIAL_MASK_FIELDS \cup {"description"}

RECURSIVE Nodes(_)
RECURSIVE NodesOfItems(_, _)
NodesOfItems(items, isDict) ==
    IF Len(items) = 0 THEN 0
    ELSE Nodes(IF isDict THEN Head(items)[2] ELSE Head(items))
         + NodesOfItems(Tail(items), isDict)

\* the number of containers and scalars of a record
Nodes(x) ==
    IF x.t \in {"list", "dict"} THEN 1 + NodesOfItems(x.v, x.t = "dict") ELSE 1

InsertAt(items, p, x) == SubSeq(items, 1, p) \o <<x>> \o SubSeq(items, p + 1, Len(items))

KeysOf(d) == {d.v[i][1] : i \in 1..Len(d.v)}

\* the records a caller puts beside the first item of a container
RECURSIVE Small(_)
Small(n) ==
    IF n <= 0 THEN {}
    ELSE IF n = 1 THEN Scalars
    ELSE Small(n - 1)
         \cup {PyList(<<x>>) : x \in Small(n - 1)}
         \cup {PyDict(<<<<k, x>>>>) : k \in FieldNames, x \in Small(n - 1)}
         \cup {PyList(<<x, y>>) : x, y \in Small(n - 2)}
         \cup {PyDict(<<<<kj[1], x>>, <<kj[2], y>>>>) :
                 kj \in {q \in FieldNames \X FieldNames : q[1] # q[2]},
                 x, y \in Small(n - 2)}

\* Siblings[n]: the records of at most n nodes, for the room a container leaves
Siblings == [n \in 0..(MaxNodes - 2) |-> Small(n)]

Room(x) == MaxNodes - Nodes(x)

AccountChars == {"A", "1", "X", "*"}
EmailChars == {"a", "b", "@", "*"}
NameChars == {"A", "b", " ", "\t"}
PatternChars == {"A", "C", "1", "@", "."}

NonStrings == {PyInt(0), PyInt(12345), PyBool(TRUE), PyBool(FALSE), PyNone,
               PyList(<<>>), PyList(<<PyInt(1), PyInt(2)>>),
               PyList(<<PyStr(<<"@">>), PyStr(<<" ">>)>>),
               PyDict(<<>>), PyDict(<<<<"description", PyInt(1)>>>>)}

-----------------------------------------------------------------------------
(* the caller of the masker: it builds a record and passes it once *)

RECURSIVE ClientIdTokens(_, _)
\* What a caller sees of hashing in one masking call: the <<string, output>>
\* pairs at the client_id keys and at the bare client-id strings that the
\* traversal of a reaches, b being the output for a.
ClientIdTokens(a, b) ==
    IF a.t = "dict" /\ b.t = "dict" /\ Len(a.v) = Len(b.v) THEN
        UNION {LET k == a.v[i][1] IN
               IF k = "client_id"
               THEN (IF IsStr(a.v[i][2]) THEN {<<a.v[i][2].v, b.v[i][2]>>} ELSE {})
               ELSE IF k \in SENSITIVE_FIELDS \cup PARTIAL_MASK_FIELDS THEN {}
               ELSE ClientIdTokens(a.v[i][2], b.v[i][2]) : i \in 1..Len(a.v)}
    ELSE IF a.t = "list" /\ b.t = "list" /\ Len(a.v) = Len(b.v) THEN
        UNION {ClientIdTokens(a.v[i], b.v[i]) : i \in 1..Len(a.v)}
    ELSE IF IsStr(a) /\ CLIENT_ID_PATTERN(a.v) THEN {<<a.v, b>>}
    ELSE {}

\* the history of tokens: <<number of the call, string, output>>
Seen(pairs) == tokens \cup {<<ncalls + 1, q[1], q[2]>> : q \in pairs}

Pending == [exc |-> "pending", val |-> PyNone]

\* no prompt yet
NoPrompt == [advisor_name |-> "", context |-> <<>>, digest_json |-> <<>>]

\* ai_insights as imported: client = None, no key in the environment
Unused ==
    /\ client = "None"
    /\ environ = ""
    /\ digest_summary = PyNone
    /\ prompt = NoPrompt
    /\ sent = <<>>

Fresh ==
    /\ Unused
    /\ ret = Pending
    /\ accumulator = {}
    /\ tokens = {}
    /\ ncalls = 0
    /\ heap = <<>>
    /\ root = PyNone
    /\ threads = <<>>
    /\ accs = <<>>
    /\ NOTIFICATIONS_STORE = <<>>

\* the alphabet the caller's strings are typed over, by the operation called
Alphabet(o) ==
    CASE o = "mask_sensitive_data" -> PatternChars
      [] o = "hash_value" -> PatternChars
      [] o = "mask_account_number" -> AccountChars
      [] o = "mask_email" -> EmailChars
      [] o = "mask_client_name" -> NameChars

\* the caller starts a record from a scalar or an empty container, or starts
\* a bare string
Init ==
    /\ op = "mask_sensitive_data"
    /\ \/ pc = "build" /\ arg \in Scalars
       \/ pc = "type" /\ arg = PyStr(<<>>)
    /\ Fresh

\* arg + c
AppendChar ==
    /\ pc = "type" /\ IsStr(arg) /\ Len(arg.v) < MaxStrLen
    /\ \E c \in Alphabet(op) : arg' = PyStr(Append(arg.v, c))
    /\ UNCHANGED <<op, pc, ret, accumulator, tokens, ncalls>>
    /\ UNCHANGED elsewhere

Building == pc = "build" /\ op = "mask_sensitive_data"

\* [arg]
WrapInList ==
    /\ Building /\ Room(arg) > 0
    /\ arg' = PyList(<<arg>>)
    /\ UNCHANGED <<op, pc, ret, accumulator, tokens, ncalls>>
    /\ UNCHANGED elsewhere

\* {k: arg}
WrapInDict ==
    /\ Building /\ Room(arg) > 0
    /\ \E k \in FieldNames : arg' = PyDict(<<<<k, arg>>>>)
    /\ UNCHANGED <<op, pc, ret, accumulator, tokens, ncalls>>
    /\ UNCHANGED elsewhere

\* arg.insert(p, x)
InsertItem ==
    /\ Building /\ arg.t = "list" /\ Len(arg.v) > 0 /\ Room(arg) > 0
    /\ \E x \in Siblings[Room(arg)] : \E p \in 0..Len(arg.v) :
        arg' = PyList(InsertAt(arg.v, p, x))
    /\ UNCHANGED <<op, pc, ret, accumulator, tokens, ncalls>>
    /\ UNCHANGED elsewhere

\* arg[k] = x for a new key k, at any place of the insertion order
InsertEntry ==
    /\ Building /\ arg.t = "dict" /\ Len(arg.v) > 0 /\ Room(arg) > 0
    /\ \E x \in Siblings[Room(arg)] : \E p \in 0..Len(arg.v) :
       \E k \in FieldNames \ KeysOf(arg) :
        arg' = PyDict(InsertAt(arg.v, p, <<k, x>>))
    /\ UNCHANGED <<op, pc, ret, accumulator, tokens, ncalls>>
    /\ UNCHANGED elsewhere

\* a caller's top-level call mask_sensitive_data(arg), masked_fields left None
CallMaskSensitiveData ==
    /\ pc \in {"build", "type"} /\ op = "mask_sensitive_data"
    /\ LET r == mask_sensitive_data(arg, <<>>) IN
       /\ ret' = [exc |-> r.exc, val |-> r.val]
       /\ accumulator' = r.mf
       /\ tokens' = IF r.exc = "none" THEN Seen(ClientIdTokens(arg, r.val)) ELSE tokens
    /\ pc' = "return"
    /\ ncalls' = ncalls + 1
    /\ UNCHANGED <<op, arg>>
    /\ UNCHANGED elsewhere

Next ==
    \/ AppendChar
    \/ WrapInList
    \/ WrapInDict
    \/ InsertItem
    \/ InsertEntry
    \/ CallMaskSensitiveData

Spec == Init /\ [][Next]_vars

-----------------------------------------------------------------------------
(* the field transforms called on their own *)

Transforms == {"hash_value", "mask_account_number", "mask_email", "mask_client_name"}

InitTransforms ==
    /\ op \in Transforms
    /\ arg \in {PyStr(<<>>)} \cup NonStrings
    /\ pc = "type"
    /\ Fresh

CallHashValue ==
    /\ pc = "type" /\ op = "hash_value"
    /\ LET r == hash_value(arg) IN
       /\ ret' = r
       /\ tokens' = IF r.exc = "none" /\ IsStr(arg) THEN Seen({<<arg.v, r.val>>}) ELSE tokens
    /\ pc' = "return"
    /\ ncalls' = ncalls + 1
    /\ UNCHANGED <<op, arg, accumulator>>
    /\ UNCHANGED elsewhere

Returned(r) ==
    /\ ret' = r
    /\ pc' = "return"
    /\ ncalls' = ncalls + 1
    /\ UNCHANGED <<op, arg, accumulator, tokens>>
    /\ UNCHANGED elsewhere

CallMaskAccountNumber ==
    /\ pc = "type" /\ op = "mask_account_number"
    /\ Returned(mask_account_number(arg))

CallMaskEmail ==
    /\ pc = "type" /\ op = "mask_email"
    /\ Returned(mask_email(arg))

CallMaskClientName ==
    /\ pc = "type" /\ op = "mask_client_name"
    /\ Returned(mask_client_name(arg))

NextTransforms ==
    \/ AppendChar
    \/ CallHashValue
    \/ CallMaskAccountNumber
    \/ CallMaskEmail
    \/ CallMaskClientName

SpecTransforms == InitTransforms /\ [][NextTransforms]_vars

-----------------------------------------------------------------------------
(* several calls in one run, for the history of tokens *)

\* "C001", "C002" and ""
ClientIds == {<<"C", "0", "0", "1">>, <<"C", "0", "0", "2">>, <<>>}

ClientRecord(s) == PyDict(<<<<"client_id", PyStr(s)>>, <<"description", PyStr(s)>>>>)

TokenArgs(o) ==
    IF o = "hash_value" THEN {PyStr(s) : s \in ClientIds}
    ELSE {PyStr(s) : s \in ClientIds}
         \cup {ClientRecord(s) : s \in ClientIds}
         \cup {PyList(<<ClientRecord(s), ClientRecord(u)>>) : s, u \in ClientIds}

InitTokens ==
    /\ op \in {"hash_value", "mask_sensitive_data"}
    /\ arg \in TokenArgs(op)
    /\ pc = "type"
    /\ Fresh

\* the caller goes on to its next call
NextCall ==
    /\ pc = "return" /\ ncalls < MaxCalls
    /\ op' \in {"hash_value", "mask_sensitive_data"}
    /\ arg' \in TokenArgs(op')
    /\ pc' = "type"
    /\ ret' = Pending
    /\ accumulator' = {}
    /\ UNCHANGED <<tokens, ncalls>>
    /\ UNCHANGED elsewhere

NextTokens ==
    \/ CallHashValue
    \/ CallMaskSensitiveData
    \/ NextCall

SpecTokens == InitTokens /\ [][NextTokens]_vars

-----------------------------------------------------------------------------
(* the caller's record as objects of the heap *)

\* the record x allocated in h, one object for each of its containers
RECURSIVE Store(_, _)
RECURSIVE StoreItems(_, _, _)
Store(x, h) ==
    IF x.t \notin {"list", "dict"} THEN [h |-> h, cell |-> x]
    ELSE LET a == Len(h) + 1
             r == StoreItems(x.v, x.t = "dict", Append(h, [t |-> x.t, v |-> <<>>]))
         IN  [h |-> [r.h EXCEPT ![a].v = r.cells], cell |-> Ref(a)]

StoreItems(items, isDict, h) ==
    IF Len(items) = 0 THEN [h |-> h, cells |-> <<>>]
    ELSE LET first == Store(IF isDict THEN Head(items)[2] ELSE Head(items), h)
             rest == StoreItems(Tail(items), isDict, first.h)
         IN  [h |-> rest.h,
              cells |-> <<IF isDict THEN <<Head(items)[1], first.cell>>
                          ELSE first.cell>> \o rest.cells]

InitHeap ==
    /\ op = "mask_sensitive_data"
    /\ pc = "build"
    /\ arg \in Scalars
    /\ Fresh

\* the caller's record comes to exist as objects
Allocate ==
    /\ Building
    /\ LET s == Store(arg, heap) IN heap' = s.h /\ root' = s.cell
    /\ pc' = "stored"
    /\ UNCHANGED <<op, arg, ret, accumulator, tokens, ncalls, threadVars, NOTIFICATIONS_STORE,
                   insightVars>>

\* mask_sensitive_data(summary) on the caller's objects
CallMaskSensitiveDataAt ==
    /\ pc = "stored"
    /\ LET r == mask_sensitive_data_at(heap, root, {}) IN
       /\ heap' = r.h
       /\ ret' = [exc |-> r.exc, val |-> r.val]
       /\ accumulator' = r.mf
    /\ pc' = "return"
    /\ ncalls' = ncalls + 1
    /\ UNCHANGED <<op, arg, tokens, root, threadVars, NOTIFICATIONS_STORE,
                   insightVars>>

NextHeap ==
    \/ WrapInList
    \/ WrapInDict
    \/ InsertItem
    \/ InsertEntry
    \/ Allocate
    \/ CallMaskSensitiveDataAt

SpecHeap == InitHeap /\ [][NextHeap]_vars

-----------------------------------------------------------------------------
(* top-level calls of the masker in concurrent threads, a step at a time *)

\* the most calls that run at once
MaxThreads == 2

\* {"client_id": "C002", "email": "jo@x.com"}, [{"account_number": "ACC123456"}],
\* {"client_name": " "} and "C002"
ThreadInputs ==
    {PyDict(<<<<"client_id", PyStr(<<"C", "0", "0", "2">>)>>,
              <<"email", PyStr(<<"j", "o", "@", "x", ".", "c", "o", "m">>)>>>>),
     PyList(<<PyDict(<<<<"account_number",
                         PyStr(<<"A", "C", "C", "1", "2", "3", "4", "5", "6">>)>>>>)>>),
     PyDict(<<<<"client_name", PyStr(<<" ">>)>>>>),
     PyStr(<<"C", "0", "0", "2">>)}

NoCell == [t |-> "nocell", v |-> 0]

\* the inputs ins[t], ..., each allocated as objects of its own
RECURSIVE StoreAll(_, _, _)
StoreAll(ins, t, h) ==
    IF t > Len(ins) THEN [h |-> h, cells |-> <<>>]
    ELSE LET first == Store(ins[t], h)
             rest == StoreAll(ins, t + 1, first.h)
         IN  [h |-> rest.h, cells |-> <<first.cell>> \o rest.cells]

InitThreads ==
    /\ op = "mask_sensitive_data"
    /\ arg = PyNone
    /\ pc = "threads"
    /\ ret = Pending
    /\ accumulator = {}
    /\ tokens = {}
    /\ ncalls = 0
    /\ root = PyNone
    /\ NOTIFICATIONS_STORE = <<>>
    /\ Unused
    /\ accs = <<>>
    /\ \E ins \in [1..MaxThreads -> ThreadInputs] :
        LET s == StoreAll(ins, 1, <<>>) IN
        /\ heap = s.h
        /\ threads = [t \in 1..MaxThreads |->
                        [arg |-> ins[t], data |-> s.cells[t], pc |-> "call",
                         masked_fields |-> 0, todo |-> NoCell, stack |-> <<>>,
                         ret |-> Pending]]

\* the shared default of "masked_fields: Set[str] = set()": one set for all calls
shared_set(sets) == [sets |-> IF Len(sets) = 0 THEN <<{}>> ELSE sets, id |-> 1]

\* masked_fields = set(): a new set
new_set(sets) == [sets |-> Append(sets, {}), id |-> Len(sets) + 1]

ThreadFrame ==
    UNCHANGED <<op, arg, pc, ret, accumulator, tokens, ncalls, root, NOTIFICATIONS_STORE,
                insightVars>>

\* the call is entered with masked_fields None
Enter ==
    \E t \in 1..MaxThreads :
        /\ threads[t].pc = "call"
        /\ LET s == new_set(accs) IN
           /\ accs' = s.sets
           /\ threads' = [threads EXCEPT ![t].pc = "run", ![t].masked_fields = s.id,
                                         ![t].todo = threads[t].data]
        /\ UNCHANGED heap
        /\ ThreadFrame

\* the value x comes back to the frame on top of the stack of thread t, or to
\* the caller of the thread
Deliver(t, h, x) ==
    LET stack == threads[t].stack IN
    IF Len(stack) = 0
    THEN /\ heap' = h
         /\ threads' = [threads EXCEPT ![t].pc = "done", ![t].todo = NoCell,
                                       ![t].ret = Ok(x)]
    ELSE LET top == stack[Len(stack)]
             src == h[top.src]
         IN  /\ heap' = [h EXCEPT ![top.dst].v =
                            IF src.t = "dict" THEN SetItem(@, src.v[top.i][1], x)
                            ELSE Append(@, x)]
             /\ threads' = [threads EXCEPT ![t].todo = NoCell,
                               ![t].stack[Len(stack)].i = top.i + 1]

\* mask_sensitive_data(data, masked_fields) begins on the cell todo: a dict
\* or a list gets its result object and a frame, a scalar is answered
Descend ==
    \E t \in 1..MaxThreads :
        /\ threads[t].pc = "run"
        /\ threads[t].todo # NoCell
        /\ LET data == threads[t].todo IN
           IF IsRef(data)
           THEN /\ heap' = Append(heap, [t |-> heap[data.v].t, v |-> <<>>])
                /\ threads' = [threads EXCEPT ![t].todo = NoCell,
                                  ![t].stack = Append(@, [src |-> data.v, i |-> 1,
                                                          dst |-> Len(heap) + 1])]
           ELSE Deliver(t, heap, mask_sensitive_data(data, <<>>).val)
        /\ UNCHANGED accs
        /\ ThreadFrame

\* one turn of the loop of mask_dict or of the list comprehension
Item ==
    \E t \in 1..MaxThreads :
        /\ threads[t].pc = "run"
        /\ threads[t].todo = NoCell
        /\ Len(threads[t].stack) > 0
        /\ LET top == threads[t].stack[Len(threads[t].stack)]
               src == heap[top.src]
           IN  /\ top.i <= Len(src.v)
               /\ IF src.t = "dict"
                     /\ src.v[top.i][1] \in SENSITIVE_FIELDS \cup PARTIAL_MASK_FIELDS
                  THEN LET key == src.v[top.i][1]
                           value == src.v[top.i][2]
                           x == Load(heap, value)
                           r == IF key \in PARTIAL_MASK_FIELDS THEN mask_client_name(x)
                                ELSE IF key = "account_number" THEN mask_account_number(x)
                                ELSE IF key = "email" \/ key = "recipient_email"
                                     THEN mask_email(x)
                                ELSE hash_value(x)
                       IN  IF r.exc # "none"
                           THEN /\ threads' = [threads EXCEPT ![t].pc = "done",
                                                  ![t].stack = <<>>, ![t].ret = r]
                                /\ UNCHANGED <<heap, accs>>
                           ELSE /\ Deliver(t, heap, IF r.val = x THEN value ELSE r.val)
                                /\ accs' = [accs EXCEPT ![threads[t].masked_fields] =
                                               @ \cup {key}]
                  ELSE /\ threads' = [threads EXCEPT ![t].todo =
                                         IF src.t = "dict" THEN src.v[top.i][2]
                                         ELSE src.v[top.i]]
                       /\ UNCHANGED <<heap, accs>>
        /\ ThreadFrame

\* return result: the loop is over
Return ==
    \E t \in 1..MaxThreads :
        /\ threads[t].pc = "run"
        /\ threads[t].todo = NoCell
        /\ Len(threads[t].stack) > 0
        /\ LET stack == threads[t].stack
               top == stack[Len(stack)]
           IN  /\ top.i > Len(heap[top.src].v)
               /\ IF Len(stack) = 1
                  THEN /\ threads' = [threads EXCEPT ![t].pc = "done", ![t].stack = <<>>,
                                         ![t].ret = Ok(Ref(top.dst))]
                       /\ UNCHANGED heap
                  ELSE LET up == stack[Len(stack) - 1]
                           src == heap[up.src]
                       IN  /\ heap' = [heap EXCEPT ![up.dst].v =
                                          IF src.t = "dict"
                                          THEN SetItem(@, src.v[up.i][1], Ref(top.dst))
                                          ELSE Append(@, Ref(top.dst))]
                           /\ threads' = [threads EXCEPT ![t].stack =
                                  [SubSeq(stack, 1, Len(stack) - 1)
                                      EXCEPT ![Len(stack) - 1].i = up.i + 1]]
        /\ UNCHANGED accs
        /\ ThreadFrame

NextThreads ==
    \/ Enter
    \/ Descend
    \/ Item
    \/ Return

SpecThreads == InitThreads /\ [][NextThreads]_vars

-----------------------------------------------------------------------------
(* digest_builder: the notification store, build_digest and its statistics *)

\* Amounts and percentages are whole numbers here; dates are ISO strings.
ADVISOR_DATA ==
    [a \in {"A001", "A002", "A003"} |->
        CASE a = "A001" -> [name |-> "John Smith", email |-> "john.smith@example.com"]
          [] a = "A002" -> [name |-> "Sarah Johnson", email |-> "sarah.johnson@example.com"]
          [] a = "A003" -> [name |-> "Michael Chen", email |-> "michael.chen@example.com"]]

\* the values of models.EmailType
EmailTypes ==
    {"margin_call", "retirement_contribution", "corporate_action",
     "outgoing account transfer"}

\* models.MarginCall
MarginCall(id, client_id, client_name, account_number, call_amount, priority) ==
    [id |-> id, client_id |-> client_id, client_name |-> client_name,
     account_number |-> account_number, call_amount |-> call_amount,
     due_date |-> "2025-01-17", current_margin_percentage |-> 15,
     required_margin_percentage |-> 25, priority |-> priority]

\* models.RetirementContribution
RetirementContribution(id, client_id, client_name, account_number, contribution_amount, priority) ==
    [id |-> id, client_id |-> client_id, client_name |-> client_name,
     account_number |-> account_number, contribution_amount |-> contribution_amount,
     contribution_type |-> "IRA", tax_year |-> 2025, priority |-> priority]

\* models.CorporateAction
CorporateAction(id, client_id, client_name, account_number, action_type, priority) ==
    [id |-> id, client_id |-> client_id, client_name |-> client_name,
     account_number |-> account_number, security_id |-> "SEC1",
     security_name |-> "Acme", action_type |-> action_type,
     deadline_date |-> "2025-01-20", description |-> "contact C002 re ACC789012",
     priority |-> priority]

\* models.OutgoingAccountTransfer
OutgoingAccountTransfer(id, client_id, client_name, account_number, net_amount, status, priority) ==
    [id |-> id, client_id |-> client_id, client_name |-> client_name,
     account_number |-> account_number, account_type |-> "IRA",
     net_amount |-> net_amount, gross_amount |-> net_amount + 10,
     transfer_type |-> "Wire", entry_date |-> "2025-01-15",
     payment_date |-> "2025-01-16", status |-> status,
     description |-> "transfer out", priority |-> priority]

\* the lists of notifications that are stored under a type
Notifications(type) ==
    CASE type = "margin_call" ->
           LET a == MarginCall("mc001", "C001", "Alice Johnson", "ACC123456", 5000, 5)
               b == MarginCall("mc002", "C002", "Bob", "ACC789012", 2500, 2)
           IN  {<<>>, <<a>>, <<a, b>>}
      [] type = "retirement_contribution" ->
           LET a == RetirementContribution("rc001", "C002", "Bob Williams",
                                           "ACC789012", 6000, 3)
               b == RetirementContribution("rc002", "C001", "Alice Marie Johnson",
                                           "ACC123456", 1500, 4)
           IN  {<<>>, <<a>>, <<a, b>>}
      [] type = "corporate_action" ->
           LET a == CorporateAction("ca001", "C001", "Alice Johnson", "ACC123456",
                                    "merger", 6)
               b == CorporateAction("ca002", "C002", "Bob Williams", "ACC789012",
                                    "tender offer", 3)
           IN  {<<>>, <<a>>, <<a, b>>, <<a, b, a>>}
      [] type = "outgoing account transfer" ->
           LET a == OutgoingAccountTransfer("t001", "C001", "Alice Johnson",
                                            "ACC123456", 1000, "Pending", 10)
               b == OutgoingAccountTransfer("t002", "C002", "Bob Williams",
                                            "ACC789012", 200, "Review Required", 1)
           IN  {<<>>, <<a>>, <<b, a>>, <<a, b, a>>}

\* models.AdvisorDigest(advisor_id=..., advisor_name=..., advisor_email=..., date=...)
AdvisorDigest(advisor_id, advisor_name, advisor_email, date) ==
    [advisor_id |-> advisor_id, advisor_name |-> advisor_name,
     advisor_email |-> advisor_email, date |-> date,
     margin_calls |-> <<>>, retirement_contributions |-> <<>>,
     corporate_actions |-> <<>>, outgoing_account_transfers |-> <<>>,
     ai_insights |-> <<>>, summary_stats |-> PyDict(<<>>)]

\* sum(numbers)
RECURSIVE Sum(_)
Sum(numbers) == IF Len(numbers) = 0 THEN 0 ELSE Head(numbers) + Sum(Tail(numbers))

\* sum(1 for x in items if x.priority >= 4)
HighPriorityCount(items) ==
    Sum([i \in 1..Len(items) |-> IF items[i].priority >= 4 THEN 1 ELSE 0])

\* AdvisorDigest.has_high_priority
has_high_priority(digest) ==
    \/ \E i \in 1..Len(digest.margin_calls) : digest.margin_calls[i].priority >= 4
    \/ \E i \in 1..Len(digest.corporate_actions) : digest.corporate_actions[i].priority >= 4
    \/ \E i \in 1..Len(digest.outgoing_account_transfers) :
          digest.outgoing_account_transfers[i].priority >= 4

\* a tally that records each key once: counts[key] = 1
RECURSIVE TallyOnce(_, _)
TallyOnce(keys, counts) ==
    IF Len(keys) = 0 THEN counts
    ELSE TallyOnce(Tail(keys),
                   IF \E i \in 1..Len(counts) : counts[i][1] = Head(keys) THEN counts
                   ELSE Append(counts, <<Head(keys), PyInt(1)>>))

\* counts[key] += 1 for each key of keys, counts a defaultdict(int)
RECURSIVE Tally(_, _)
Tally(keys, counts) ==
    IF Len(keys) = 0 THEN counts
    ELSE LET k == Head(keys)
             seen == \E i \in 1..Len(counts) : counts[i][1] = k
             n == IF seen THEN (CHOOSE i \in 1..Len(counts) : counts[i][1] = k) ELSE 0
         IN  Tally(Tail(keys),
                   IF seen THEN [counts EXCEPT ![n] = <<k, PyInt(counts[n][2].v + 1)>>]
                   ELSE Append(counts, <<k, PyInt(1)>>))

\* def _generate_summary_stats(digest)
_generate_summary_stats(digest) ==
    PyDict(<<
      <<"total_notifications",
        PyInt(Len(digest.margin_calls) + Len(digest.retirement_contributions)
              + Len(digest.corporate_actions) + Len(digest.outgoing_account_transfers))>>,
      <<"margin_calls", PyDict(<<
          <<"count", PyInt(Len(digest.margin_calls))>>,
          <<"total_amount", PyInt(Sum([i \in 1..Len(digest.margin_calls) |->
                          digest.margin_calls[i].call_amount]))>>,
          <<"high_priority_count", PyInt(HighPriorityCount(digest.margin_calls))>> >>)>>,
      <<"retirement_contributions", PyDict(<<
          <<"count", PyInt(Len(digest.retirement_contributions))>>,
          <<"total_amount",
            PyInt(Sum([i \in 1..Len(digest.retirement_contributions) |->
                          digest.retirement_contributions[i].contribution_amount]))>> >>)>>,
      <<"corporate_actions", PyDict(<<
          <<"count", PyInt(Len(digest.corporate_actions))>>,
          <<"by_type",
            PyDict(Tally([i \in 1..Len(digest.corporate_actions) |->
                             digest.corporate_actions[i].action_type], <<>>))>> >>)>>,
      <<"outgoing_account_transfers", PyDict(<<
          <<"count", PyInt(Len(digest.outgoing_account_transfers))>>,
          <<"total_amount",
            PyInt(Sum([i \in 1..Len(digest.outgoing_account_transfers) |->
                          digest.outgoing_account_transfers[i].net_amount]))>>,
          <<"by_status",
            PyDict(Tally([i \in 1..Len(digest.outgoing_account_transfers) |->
                             digest.outgoing_account_transfers[i].status], <<>>))>>,
          <<"high_priority_count",
            PyInt(HighPriorityCount(digest.outgoing_account_transfers))>> >>)>>,
      <<"has_high_priority", PyBool(has_high_priority(digest))>> >>)

\* d[k] = v on a dict kept as a function of its keys
DictSet(d, k, v) == [x \in DOMAIN d \cup {k} |-> IF x = k THEN v ELSE d[x]]

\* defaultdict.__getitem__: a missing key gets the default and is stored
DefaultGet(d, k, default) ==
    IF k \in DOMAIN d THEN [d |-> d, val |-> d[k]]
    ELSE [d |-> DictSet(d, k, default), val |-> default]

\* advisor_notifications[type] if type in advisor_notifications, else the
\* field's default []
Stored(store, advisor_id, type) ==
    IF advisor_id \in DOMAIN store /\ type \in DOMAIN store[advisor_id]
    THEN store[advisor_id][type] ELSE <<>>

\* the digest that build_digest fills from the lists found for the advisor
FilledDigest(advisor_id, digest_date, lists) ==
    LET digest ==
            [AdvisorDigest(advisor_id, ADVISOR_DATA[advisor_id].name,
                           ADVISOR_DATA[advisor_id].email, digest_date)
                EXCEPT !.margin_calls = lists["margin_call"],
                       !.retirement_contributions = lists["retirement_contribution"],
                       !.corporate_actions = lists["corporate_action"],
                       !.outgoing_account_transfers = lists["outgoing account transfer"]]
    IN  [digest EXCEPT !.summary_stats = _generate_summary_stats(digest)]

\* a build_digest that reads NOTIFICATIONS_STORE[advisor_id][type] with no
\* membership test, so that the defaultdicts store their defaults
build_digest_unguarded(advisor_id, digest_date, store) ==
    IF advisor_id \notin DOMAIN ADVISOR_DATA
    THEN [exc |-> "ValueError", val |-> PyNone, store |-> store]
    ELSE LET mine == DefaultGet(store, advisor_id, <<>>).val
             lists == [type \in EmailTypes |-> DefaultGet(mine, type, <<>>).val]
         IN  [exc |-> "none", val |-> FilledDigest(advisor_id, digest_date, lists),
              store |-> DictSet(store, advisor_id,
                                [type \in EmailTypes |-> lists[type]])]

\* a build_digest that keeps the notifications stamped on the requested date
build_digest_of_date(advisor_id, digest_date, store) ==
    IF advisor_id \notin DOMAIN ADVISOR_DATA
    THEN [exc |-> "ValueError", val |-> PyNone, store |-> store]
    ELSE [exc |-> "none",
          val |-> FilledDigest(advisor_id, digest_date,
                     [type \in EmailTypes |->
                         SelectSeq(Stored(store, advisor_id, type),
                                   LAMBDA n : n.timestamp.date = digest_date)]),
          store |-> store]

\* def build_digest(advisor_id, digest_date): the result and the store after it
build_digest(advisor_id, digest_date, store) ==
    IF advisor_id \notin DOMAIN ADVISOR_DATA
    THEN [exc |-> "ValueError", val |-> PyNone, store |-> store]
    ELSE [exc |-> "none",
          val |-> FilledDigest(advisor_id, digest_date,
                               [type \in EmailTypes |-> Stored(store, advisor_id, type)]),
          store |-> store]

\* a store_notifications that adds the notifications to those stored before
store_notifications_extend(advisor_id, notification_type, notifications, store) ==
    LET mine == DefaultGet(store, advisor_id, <<>>) IN
    DictSet(mine.d, advisor_id,
            DictSet(mine.val, notification_type,
                    DefaultGet(mine.val, notification_type, <<>>).val \o notifications))

\* def store_notifications(advisor_id, notification_type, notifications)
store_notifications(advisor_id, notification_type, notifications, store) ==
    LET mine == DefaultGet(store, advisor_id, <<>>) IN
    DictSet(mine.d, advisor_id, DictSet(mine.val, notification_type, notifications))

\* the most calls of store_notifications before a digest is built
MaxStores == 3

\* the advisor ids that callers pass: two of the table, an unknown one, ""
AdvisorIds == {"A001", "A003", "A999", ""}

InitDigest ==
    /\ op = "build_digest"
    /\ arg = ""
    /\ pc = "store"
    /\ Fresh

CallStoreNotifications ==
    /\ pc = "store" /\ ncalls < MaxStores
    /\ \E a \in {"A001", "A999"} : \E type \in EmailTypes :
       \E ns \in Notifications(type) :
        NOTIFICATIONS_STORE' = store_notifications(a, type, ns, NOTIFICATIONS_STORE)
    /\ ncalls' = ncalls + 1
    /\ UNCHANGED <<op, arg, pc, ret, accumulator, tokens, heapVars, threadVars,
                   insightVars>>

CallBuildDigest ==
    /\ pc = "store"
    /\ \E a \in AdvisorIds :
        LET r == build_digest(a, "2025-01-15", NOTIFICATIONS_STORE) IN
        /\ arg' = a
        /\ ret' = [exc |-> r.exc, val |-> r.val]
        /\ NOTIFICATIONS_STORE' = r.store
    /\ pc' = "return"
    /\ UNCHANGED <<op, accumulator, tokens, ncalls, heapVars, threadVars, insightVars>>

\* the caller goes on with the store as build_digest left it
AfterBuildDigest ==
    /\ pc = "return" /\ op = "build_digest"
    /\ pc' = "store"
    /\ ret' = Pending
    /\ arg' = ""
    /\ UNCHANGED <<op, accumulator, tokens, ncalls, heapVars, threadVars,
                   NOTIFICATIONS_STORE, insightVars>>

NextDigest ==
    \/ CallStoreNotifications
    \/ CallBuildDigest
    \/ AfterBuildDigest

SpecDigest == InitDigest /\ [][NextDigest]_vars

-----------------------------------------------------------------------------
(* ai_insights._parse_claude_response *)

\* A response text is kept as the sequence of its lexemes: the brackets,
\* braces, commas and colons of JSON, a string literal (written without its
\* quotes), a number, null, or a word of prose.  No string literal of the
\* model holds a bracket.
StringLits ==
    {"title", "content", "recommendation", "related_clients", "priority",
     "Risk", "Text", "Call", "Bob"}

NumberLits == {"5", "11"}

NumberOf(tok) == IF tok = "5" THEN 5 ELSE 11

\* str.find: the 0-based index of the first tok, or -1
find(text, tok) ==
    IF \E i \in 1..Len(text) : text[i] = tok
    THEN (CHOOSE i \in 1..Len(text) : text[i] = tok /\ \A j \in 1..(i - 1) : text[j] # tok) - 1
    ELSE -1

\* an rfind that looks from the left
rfind_from_left(text, tok) == find(text, tok)

\* str.rfind: the 0-based index of the last tok, or -1
rfind(text, tok) ==
    IF \E i \in 1..Len(text) : text[i] = tok
    THEN (CHOOSE i \in 1..Len(text) :
             text[i] = tok /\ \A j \in (i + 1)..Len(text) : text[j] # tok) - 1
    ELSE -1

Parsed(x, next) == [ok |-> TRUE, val |-> x, next |-> next]
NotJson == [ok |-> FALSE, val |-> PyNone, next |-> 0]

\* json.loads on lexemes: a value at toks[i], elements up to ']', members up
\* to '}'
RECURSIVE ParseValue(_, _)
RECURSIVE ParseElements(_, _, _)
RECURSIVE ParseMembers(_, _, _)
ParseValue(toks, i) ==
    IF i > Len(toks) THEN NotJson
    ELSE IF toks[i] = "[" THEN ParseElements(toks, i + 1, <<>>)
    ELSE IF toks[i] = "{" THEN ParseMembers(toks, i + 1, <<>>)
    ELSE IF toks[i] \in StringLits THEN Parsed(PyStr(toks[i]), i + 1)
    ELSE IF toks[i] \in NumberLits THEN Parsed(PyInt(NumberOf(toks[i])), i + 1)
    ELSE IF toks[i] = "null" THEN Parsed(PyNone, i + 1)
    ELSE NotJson

ParseElements(toks, i, items) ==
    IF i > Len(toks) THEN NotJson
    ELSE IF Len(items) = 0 /\ toks[i] = "]" THEN Parsed(PyList(<<>>), i + 1)
    ELSE LET x == ParseValue(toks, i) IN
         IF ~x.ok \/ x.next > Len(toks) THEN NotJson
         ELSE IF toks[x.next] = "]" THEN Parsed(PyList(Append(items, x.val)), x.next + 1)
         ELSE IF toks[x.next] = "," THEN ParseElements(toks, x.next + 1, Append(items, x.val))
         ELSE NotJson

ParseMembers(toks, i, items) ==
    IF i > Len(toks) THEN NotJson
    ELSE IF Len(items) = 0 /\ toks[i] = "}" THEN Parsed(PyDict(<<>>), i + 1)
    ELSE IF toks[i] \notin StringLits \/ i + 1 > Len(toks) \/ toks[i + 1] # ":" THEN NotJson
    ELSE LET x == ParseValue(toks, i + 2) IN
         IF ~x.ok \/ x.next > Len(toks) THEN NotJson
         ELSE IF toks[x.next] = "}"
              THEN Parsed(PyDict(SetItem(items, toks[i], x.val)), x.next + 1)
         ELSE IF toks[x.next] = ","
              THEN ParseMembers(toks, x.next + 1, SetItem(items, toks[i], x.val))
         ELSE NotJson

\* json.loads(json_str): the whole text is one value, or JSONDecodeError
json_loads(json_str) ==
    LET x == ParseValue(json_str, 1) IN
    IF x.ok /\ x.next = Len(json_str) + 1 THEN Ok(x.val) ELSE Raise("JSONDecodeError")

\* insight_data.get(key, default) on a parsed object
DictGet(d, key, default) ==
    IF \E i \in 1..Len(d.v) : d.v[i][1] = key
    THEN d.v[CHOOSE i \in 1..Len(d.v) : d.v[i][1] = key][2]
    ELSE default

\* models.AIInsight(...): the field types and the range of priority are
\* validated
AIInsight(title, content, recommendation, related_clients, priority) ==
    IF /\ IsStr(title)
       /\ IsStr(content)
       /\ (IsStr(recommendation) \/ recommendation = PyNone)
       /\ related_clients.t = "list"
       /\ \A i \in 1..Len(related_clients.v) : IsStr(related_clients.v[i])
       /\ priority.t = "int" /\ priority.v >= 1 /\ priority.v <= 10
    THEN Ok([title |-> title, content |-> content, recommendation |-> recommendation,
             related_clients |-> related_clients, priority |-> priority])
    ELSE Raise("ValidationError")

\* the loop "for insight_data in insights_data" from the i-th element on
RECURSIVE Insights(_, _, _)
Insights(insights_data, i, insights) ==
    IF i > Len(insights_data) THEN Ok(insights)
    ELSE LET insight_data == insights_data[i] IN
         IF insight_data.t # "dict" THEN Raise("AttributeError")
         ELSE LET insight ==
                      AIInsight(DictGet(insight_data, "title", PyStr("Untitled Insight")),
                                DictGet(insight_data, "content", PyStr("")),
                                DictGet(insight_data, "recommendation", PyNone),
                                DictGet(insight_data, "related_clients", PyList(<<>>)),
                                DictGet(insight_data, "priority", PyInt(3)))
              IN  IF insight.exc # "none" THEN insight
                  ELSE Insights(insights_data, i + 1, Append(insights, insight.val))

\* def _parse_claude_response(response_text): every exception of the body
\* is caught and answered with []
_parse_claude_response(response_text) ==
    LET json_start == find(response_text, "[")
        json_end == rfind(response_text, "]") + 1
    IN  IF json_start = -1 \/ json_end = 0 THEN Ok(<<>>)
        ELSE LET json_str == SubSeq(response_text, json_start + 1, json_end)
                 insights_data == json_loads(json_str)
             IN  IF insights_data.exc # "none" THEN Ok(<<>>)
                 ELSE LET insights == Insights(insights_data.val.v, 1, <<>>) IN
                      IF insights.exc # "none" THEN Ok(<<>>) ELSE insights

\* the text of a JSON value, as the service writes it
RECURSIVE Dumps(_)
RECURSIVE DumpsItems(_, _)
Dumps(x) ==
    CASE x.t = "list" -> <<"[">> \o DumpsItems(x.v, FALSE) \o <<"]">>
      [] x.t = "dict" -> <<"{">> \o DumpsItems(x.v, TRUE) \o <<"}">>
      [] x.t = "int" -> <<IF x.v = 5 THEN "5" ELSE "11">>
      [] x.t = "none" -> <<"null">>
      [] x.t = "str" -> <<x.v>>

DumpsItems(items, isDict) ==
    IF Len(items) = 0 THEN <<>>
    ELSE (IF isDict THEN <<Head(items)[1], ":">> \o Dumps(Head(items)[2])
          ELSE Dumps(Head(items)))
         \o (IF Len(items) = 1 THEN <<>> ELSE <<",">> \o DumpsItems(Tail(items), isDict))

\* the most elements of the array in a response
MaxElements == 2

\* the elements of the arrays the service answers with: a full insight, an
\* empty object, a priority out of range, a null title, related_clients
\* that is no list, and a number
Elements ==
    {PyDict(<<<<"title", PyStr("Risk")>>, <<"content", PyStr("Text")>>,
              <<"recommendation", PyStr("Call")>>,
              <<"related_clients", PyList(<<PyStr("Bob")>>)>>,
              <<"priority", PyInt(5)>>>>),
     PyDict(<<>>),
     PyDict(<<<<"title", PyStr("Risk")>>, <<"priority", PyInt(11)>>>>),
     PyDict(<<<<"title", PyNone>>>>),
     PyDict(<<<<"related_clients", PyStr("Bob")>>>>),
     PyInt(5)}

\* what surrounds or damages the array in the response text
Edits ==
    {"none", "prose before", "prose after", "prose around", "prose only",
     "cut short", "extra [", "extra ]", "nested"}

InitParse ==
    /\ op = "_parse_claude_response"
    /\ arg = [doc |-> <<>>, edit |-> "none", text |-> <<>>]
    /\ pc = "doc"
    /\ Fresh

\* the service puts one more element in its array
AppendElement ==
    /\ pc = "doc" /\ Len(arg.doc) < MaxElements
    /\ \E x \in Elements : arg' = [arg EXCEPT !.doc = Append(@, x)]
    /\ UNCHANGED <<op, pc, ret, accumulator, tokens, ncalls>>
    /\ UNCHANGED elsewhere

\* the service writes its response: the array with or without prose, cut
\* short after k lexemes, with a stray bracket, or no array at all
Respond ==
    /\ pc = "doc"
    /\ LET json == Dumps(PyList(arg.doc)) IN
       \E edit \in Edits : \E k \in 1..(Len(json) - 1) :
        arg' = [arg EXCEPT
                  !.edit = edit,
                  !.text = CASE edit = "none" -> json
                             [] edit = "prose before" -> <<"Here", "you", "go">> \o json
                             [] edit = "prose after" -> json \o <<"Regards">>
                             [] edit = "prose around" -> <<"Here">> \o json \o <<"Regards">>
                             [] edit = "prose only" -> <<"Here", "you", "go">>
                             [] edit = "cut short" -> SubSeq(json, 1, k)
                             [] edit = "extra [" -> <<"[">> \o json
                             [] edit = "extra ]" -> json \o <<"]">>
                             [] edit = "nested" -> <<"[">> \o json \o <<"]">>]
    /\ pc' = "text"
    /\ UNCHANGED <<op, ret, accumulator, tokens, ncalls>>
    /\ UNCHANGED elsewhere

CallParseClaudeResponse ==
    /\ pc = "text" /\ op = "_parse_claude_response"
    /\ ret' = _parse_claude_response(arg.text)
    /\ pc' = "return"
    /\ ncalls' = ncalls + 1
    /\ UNCHANGED <<op, arg, accumulator, tokens>>
    /\ UNCHANGED elsewhere

NextParse ==
    \/ AppendElement
    \/ Respond
    \/ CallParseClaudeResponse

SpecParse == InitParse /\ [][NextParse]_vars

-----------------------------------------------------------------------------
(* ai_insights: the summary of a digest, the prompts and the service calls *)

\* The fields of a notification are whole strings; the masker reads
\* characters.  Chars(s) is the string s as the sequence of its characters.
Chars(s) ==
    CASE s = "A001" -> <<"A", "0", "0", "1">>
      [] s = "A002" -> <<"A", "0", "0", "2">>
      [] s = "A003" -> <<"A", "0", "0", "3">>
      [] s = "John Smith" -> <<"J", "o", "h", "n", " ", "S", "m", "i", "t", "h">>
      [] s = "Sarah Johnson" ->
           <<"S", "a", "r", "a", "h", " ", "J", "o", "h", "n", "s", "o", "n">>
      [] s = "Michael Chen" ->
           <<"M", "i", "c", "h", "a", "e", "l", " ", "C", "h", "e", "n">>
      [] s = "2025-01-15" -> <<"2", "0", "2", "5", "-", "0", "1", "-", "1", "5">>
      [] s = "C001" -> <<"C", "0", "0", "1">>
      [] s = "C002" -> <<"C", "0", "0", "2">>
      [] s = "Alice Johnson" ->
           <<"A", "l", "i", "c", "e", " ", "J", "o", "h", "n", "s", "o", "n">>
      [] s = "Bob" -> <<"B", "o", "b">>
      [] s = "Bob Williams" ->
           <<"B", "o", "b", " ", "W", "i", "l", "l", "i", "a", "m", "s">>
      [] s = "Alice Marie Johnson" ->
           <<"A", "l", "i", "c", "e", " ", "M", "a", "r", "i", "e", " ", "J", "o", "h",
             "n", "s", "o", "n">>
      [] s = "ACC123456" -> <<"A", "C", "C", "1", "2", "3", "4", "5", "6">>
      [] s = "ACC789012" -> <<"A", "C", "C", "7", "8", "9", "0", "1", "2">>
      [] s = "2025-01-17" -> <<"2", "0", "2", "5", "-", "0", "1", "-", "1", "7">>
      [] s = "IRA" -> <<"I", "R", "A">>
      [] s = "SEC1" -> <<"S", "E", "C", "1">>
      [] s = "Acme" -> <<"A", "c", "m", "e">>
      [] s = "merger" -> <<"m", "e", "r", "g", "e", "r">>
      [] s = "tender offer" ->
           <<"t", "e", "n", "d", "e", "r", " ", "o", "f", "f", "e", "r">>
      [] s = "2025-01-20" -> <<"2", "0", "2", "5", "-", "0", "1", "-", "2", "0">>
      [] s = "contact C002 re ACC789012" ->
           <<"c", "o", "n", "t", "a", "c", "t", " ", "C", "0", "0", "2", " ", "r", "e",
             " ", "A", "C", "C", "7", "8", "9", "0", "1", "2">>
      [] s = "Wire" -> <<"W", "i", "r", "e">>
      [] s = "2025-01-16" -> <<"2", "0", "2", "5", "-", "0", "1", "-", "1", "6">>
      [] s = "Pending" -> <<"P", "e", "n", "d", "i", "n", "g">>
      [] s = "Review Required" ->
           <<"R", "e", "v", "i", "e", "w", " ", "R", "e", "q", "u", "i", "r", "e", "d">>
      [] s = "transfer out" ->
           <<"t", "r", "a", "n", "s", "f", "e", "r", " ", "o", "u", "t">>
      [] s = "margin call" -> <<"m", "a", "r", "g", "i", "n", " ", "c", "a", "l", "l">>

\* the entries of the summary for the notifications from the first one on
RECURSIVE MarginCallEntries(_)
MarginCallEntries(calls) ==
    IF Len(calls) = 0 THEN <<>>
    ELSE LET call == Head(calls) IN
         <<PyDict(<<
             <<"client_id", PyStr(Chars(call.client_id))>>,
             <<"client_name", PyStr(Chars(call.client_name))>>,
             <<"account_number", PyStr(Chars(call.account_number))>>,
             <<"call_amount", PyInt(call.call_amount)>>,
             <<"due_date", PyStr(Chars(call.due_date))>>,
             <<"current_margin_percentage", PyInt(call.current_margin_percentage)>>,
             <<"required_margin_percentage", PyInt(call.required_margin_percentage)>>,
             <<"priority", PyInt(call.priority)>> >>)>>
         \o MarginCallEntries(Tail(calls))

RECURSIVE RetirementContributionEntries(_)
RetirementContributionEntries(contribs) ==
    IF Len(contribs) = 0 THEN <<>>
    ELSE LET contrib == Head(contribs) IN
         <<PyDict(<<
             <<"client_id", PyStr(Chars(contrib.client_id))>>,
             <<"client_name", PyStr(Chars(contrib.client_name))>>,
             <<"account_number", PyStr(Chars(contrib.account_number))>>,
             <<"contribution_amount", PyInt(contrib.contribution_amount)>>,
             <<"contribution_type", PyStr(Chars(contrib.contribution_type))>>,
             <<"tax_year", PyInt(contrib.tax_year)>>,
             <<"priority", PyInt(contrib.priority)>> >>)>>
         \o RetirementContributionEntries(Tail(contribs))

RECURSIVE CorporateActionEntries(_)
CorporateActionEntries(actions) ==
    IF Len(actions) = 0 THEN <<>>
    ELSE LET action == Head(actions) IN
         <<PyDict(<<
             <<"client_id", PyStr(Chars(action.client_id))>>,
             <<"client_name", PyStr(Chars(action.client_name))>>,
             <<"account_number", PyStr(Chars(action.account_number))>>,
             <<"security_id", PyStr(Chars(action.security_id))>>,
             <<"security_name", PyStr(Chars(action.security_name))>>,
             <<"action_type", PyStr(Chars(action.action_type))>>,
             <<"deadline_date", PyStr(Chars(action.deadline_date))>>,
             <<"description", PyStr(Chars(action.description))>>,
             <<"priority", PyInt(action.priority)>> >>)>>
         \o CorporateActionEntries(Tail(actions))

RECURSIVE OutgoingAccountTransferEntries(_)
OutgoingAccountTransferEntries(transfers) ==
    IF Len(transfers) = 0 THEN <<>>
    ELSE LET transfer == Head(transfers) IN
         <<PyDict(<<
             <<"client_id", PyStr(Chars(transfer.client_id))>>,
             <<"client_name", PyStr(Chars(transfer.client_name))>>,
             <<"account_number", PyStr(Chars(transfer.account_number))>>,
             <<"account_type", PyStr(Chars(transfer.account_type))>>,
             <<"net_amount", PyInt(transfer.net_amount)>>,
             <<"gross_amount", PyInt(transfer.gross_amount)>>,
             <<"transfer_type", PyStr(Chars(transfer.transfer_type))>>,
             <<"entry_date", PyStr(Chars(transfer.entry_date))>>,
             <<"payment_date", PyStr(Chars(transfer.payment_date))>>,
             <<"status", PyStr(Chars(transfer.status))>>,
             <<"description", PyStr(Chars(transfer.description))>>,
             <<"priority", PyInt(transfer.priority)>> >>)>>
         \o OutgoingAccountTransferEntries(Tail(transfers))

\* the dict "summary" of _create_digest_summary, before it is masked
Summary(digest) ==
    PyDict(<<
      <<"advisor_id", PyStr(Chars(digest.advisor_id))>>,
      <<"advisor_name", PyStr(Chars(digest.advisor_name))>>,
      <<"date", PyStr(Chars(digest.date))>>,
      <<"margin_calls", PyList(MarginCallEntries(digest.margin_calls))>>,
      <<"retirement_contributions",
        PyList(RetirementContributionEntries(digest.retirement_contributions))>>,
      <<"corporate_actions", PyList(CorporateActionEntries(digest.corporate_actions))>>,
      <<"outgoing_account_transfers",
        PyList(OutgoingAccountTransferEntries(digest.outgoing_account_transfers))>>,
      <<"summary_stats", digest.summary_stats>> >>)

\* a _create_digest_summary that returns the summary as it is
_create_digest_summary_unmasked(digest) == Ok(Summary(digest))

\* def _create_digest_summary(digest)
_create_digest_summary(digest) ==
    Only({[exc |-> masked_summary.exc, val |-> masked_summary.val] :
             masked_summary \in {mask_sensitive_data(Summary(digest), <<>>)}})

\* json.dumps(digest_summary, indent=2) as lexemes: a bracket, brace, comma
\* or colon, a key, or a scalar
Punct(c) == [t |-> "punct", v |-> c]

RECURSIVE json_dumps(_)
RECURSIVE json_dumps_items(_, _)
json_dumps(x) ==
    IF x.t = "list" THEN <<Punct("[")>> \o json_dumps_items(x.v, FALSE) \o <<Punct("]")>>
    ELSE IF x.t = "dict"
    THEN <<Punct("{")>> \o json_dumps_items(x.v, TRUE) \o <<Punct("}")>>
    ELSE <<x>>

json_dumps_items(items, isDict) ==
    IF Len(items) = 0 THEN <<>>
    ELSE (IF isDict
          THEN <<[t |-> "key", v |-> Head(items)[1]], Punct(":")>>
               \o json_dumps(Head(items)[2])
          ELSE json_dumps(Head(items)))
         \o (IF Len(items) = 1 THEN <<>>
             ELSE <<Punct(",")>> \o json_dumps_items(Tail(items), isDict))

\* digest_summary[category], a list of dicts
Category(summary, category) == DictGet(summary, category, PyList(<<>>)).v

Categories ==
    <<"margin_calls", "retirement_contributions", "corporate_actions",
      "outgoing_account_transfers">>

\* the items of the four categories, one after the other
AllItems(summary) ==
    Category(summary, Categories[1]) \o Category(summary, Categories[2])
    \o Category(summary, Categories[3]) \o Category(summary, Categories[4])

RECURSIVE Highest(_, _)
Highest(items, highest_priority) ==
    IF Len(items) = 0 THEN highest_priority
    ELSE LET p == DictGet(Head(items), "priority", PyInt(0)).v IN
         Highest(Tail(items), IF p > highest_priority THEN p ELSE highest_priority)

\* upcoming_deadlines: the corporate actions, then the margin calls
Deadlines(summary) ==
    LET actions == Category(summary, "corporate_actions")
        calls == Category(summary, "margin_calls")
    IN  [i \in 1..Len(actions) |->
            <<DictGet(actions[i], "client_name", PyNone),
              DictGet(actions[i], "action_type", PyNone),
              DictGet(actions[i], "security_name", PyNone),
              DictGet(actions[i], "deadline_date", PyNone)>>]
        \o [i \in 1..Len(calls) |->
            <<DictGet(calls[i], "client_name", PyNone),
              PyStr(Chars("margin call")),
              DictGet(calls[i], "call_amount", PyNone),
              DictGet(calls[i], "due_date", PyNone)>>]

\* def _create_executive_summary_prompt(advisor_name, digest_summary): the
\* parts of the text that depend on the arguments
_create_executive_summary_prompt(advisor_name, summary) ==
    LET items == AllItems(summary)
        upcoming_deadlines == Deadlines(summary)
    IN  [advisor_name |-> advisor_name,
         context |->
            <<DictGet(DictGet(summary, "summary_stats", PyNone),
                      "total_notifications", PyNone),
              PyInt(Cardinality({DictGet(items[i], "client_id", PyNone) :
                                    i \in 1..Len(items)})),
              PyInt(Highest(items, 0)),
              SubSeq(upcoming_deadlines, 1,
                     IF Len(upcoming_deadlines) < 3 THEN Len(upcoming_deadlines) ELSE 3)>>,
         digest_json |-> json_dumps(summary)]

\* def _create_claude_prompt(advisor_name, digest_summary)
_create_claude_prompt(advisor_name, summary) ==
    [advisor_name |-> advisor_name, context |-> <<>>, digest_json |-> json_dumps(summary)]

\* [x.client_name for x in items if x.priority >= least]
RECURSIVE ClientNames(_, _)
ClientNames(items, least) ==
    IF Len(items) = 0 THEN <<>>
    ELSE (IF Head(items).priority >= least THEN <<PyStr(Head(items).client_name)>>
          ELSE <<>>)
         \o ClientNames(Tail(items), least)

\* the two insights that generate_insights returns without the service: the
\* margin calls of priority at least "least", and all the contributions
GenericInsights(digest, least) ==
    LET calls == AIInsight(
            PyStr("High Priority Margin Calls"),
            PyStr("There are several high priority margin calls that require immediate attention."),
            PyStr("Contact clients with margin calls due in the next 48 hours."),
            PyList(ClientNames(digest.margin_calls, least)),
            PyInt(5))
        contribs == AIInsight(
            PyStr("Retirement Contribution Summary"),
            PyStr("Several clients have made retirement contributions that may have tax implications."),
            PyStr("Review retirement planning strategies with these clients."),
            PyList(ClientNames(digest.retirement_contributions, 1)),
            PyInt(3))
    IN  IF calls.exc # "none" THEN calls
        ELSE IF contribs.exc # "none" THEN contribs
        ELSE Ok(<<calls.val, contribs.val>>)

\* f"Daily digest for {digest.date} with {total_notifications}
\* notifications requiring your attention."
GenericSummary(digest) ==
    Ok(PyStr(<<"Daily digest for ", digest.date, " with ",
               ToString(DictGet(digest.summary_stats, "total_notifications", PyNone).v),
               " notifications requiring your attention.">>))

\* what a generate_* function does when the fallback call has raised too:
\* it raises on
SecondFailureRaises(o, digest) == Raise("APIError")

\* what a generate_* function does when the fallback call has raised too
SecondFailure(o, digest) ==
    IF o = "generate_insights" THEN GenericInsights(digest, 4) ELSE GenericSummary(digest)

\* what it does with the message of the service
Answer(o, text) ==
    IF o = "generate_insights" THEN _parse_claude_response(text) ELSE Ok(PyStr(text))

\* the texts the service answers with
Responses ==
    {<<"Here", "you", "go">>,
     Dumps(PyList(<<>>)),
     <<"Here">> \o Dumps(PyList(<<PyDict(<<<<"title", PyStr("Risk")>>,
                                             <<"priority", PyInt(5)>>>>)>>)),
     Dumps(PyList(<<PyDict(<<<<"priority", PyInt(11)>>>>)>>))}

\* the digests that main hands over: those of build_digest for an advisor
Digests ==
    {FilledDigest("A001", "2025-01-15",
                  [type \in EmailTypes |->
                      CASE type = "margin_call" -> calls
                        [] type = "retirement_contribution" -> contribs
                        [] type = "corporate_action" -> actions
                        [] type = "outgoing account transfer" -> transfers]) :
        calls \in Notifications("margin_call"),
        contribs \in Notifications("retirement_contribution"),
        actions \in Notifications("corporate_action"),
        transfers \in Notifications("outgoing account transfer")}

\* the digest of an advisor without notifications
NoDigest == FilledDigest("A001", "2025-01-15", [type \in EmailTypes |-> <<>>])

InitInsights ==
    /\ op = "generate_insights"
    /\ arg = NoDigest
    /\ pc = "idle"
    /\ Fresh

\* the key is put in the environment, or taken from it, between two calls
SetApiKey ==
    /\ pc = "idle"
    /\ environ' = IF environ = "" THEN "sk-ant-test" ELSE ""
    /\ UNCHANGED <<op, arg, pc, ret, accumulator, tokens, ncalls, heapVars, threadVars,
                   NOTIFICATIONS_STORE, client, digest_summary, prompt, sent>>

\* generate_insights(digest) up to its first call of the service
CallGenerateInsights ==
    /\ pc = "idle"
    /\ op' = "generate_insights"
    /\ \E digest \in Digests :
        /\ arg' = digest
        /\ IF client = "None" /\ environ = ""
           THEN /\ ret' = GenericInsights(digest, 2)
                /\ pc' = "return"
                /\ UNCHANGED <<client, digest_summary, prompt>>
           ELSE LET summary == _create_digest_summary(digest) IN
                /\ client' = "Anthropic"
                /\ IF summary.exc # "none"
                   THEN /\ ret' = summary
                        /\ pc' = "return"
                        /\ UNCHANGED <<digest_summary, prompt>>
                   ELSE /\ digest_summary' = summary.val
                        /\ prompt' = _create_claude_prompt(digest.advisor_name, summary.val)
                        /\ ret' = Pending
                        /\ pc' = "first"
    /\ UNCHANGED <<accumulator, tokens, ncalls, heapVars, threadVars, NOTIFICATIONS_STORE,
                   environ, sent>>

\* generate_executive_summary(digest) up to its first call of the service
CallGenerateExecutiveSummary ==
    /\ pc = "idle"
    /\ op' = "generate_executive_summary"
    /\ \E digest \in Digests :
        /\ arg' = digest
        /\ IF client = "None" /\ environ = ""
           THEN /\ ret' = GenericSummary(digest)
                /\ pc' = "return"
                /\ UNCHANGED <<client, digest_summary, prompt>>
           ELSE LET summary == _create_digest_summary(digest) IN
                /\ client' = "Anthropic"
                /\ IF summary.exc # "none"
                   THEN /\ ret' = summary
                        /\ pc' = "return"
                        /\ UNCHANGED <<digest_summary, prompt>>
                   ELSE /\ digest_summary' = summary.val
                        /\ prompt' = _create_executive_summary_prompt(digest.advisor_name,
                                                                      summary.val)
                        /\ ret' = Pending
                        /\ pc' = "first"
    /\ UNCHANGED <<accumulator, tokens, ncalls, heapVars, threadVars, NOTIFICATIONS_STORE,
                   environ, sent>>

\* client.messages.create(model="claude-3-opus-20240229", ...): it raises, or
\* it answers and the function returns
FirstAttempt ==
    /\ pc = "first"
    /\ \E raised \in BOOLEAN :
        /\ sent' = Append(sent, [model |-> "claude-3-opus-20240229", prompt |-> prompt,
                                 raised |-> raised])
        /\ IF raised
           THEN pc' = "fallback" /\ ret' = ret
           ELSE pc' = "return" /\ \E text \in Responses : ret' = Answer(op, text)
    /\ UNCHANGED <<op, arg, accumulator, tokens, ncalls, heapVars, threadVars,
                   NOTIFICATIONS_STORE, client, environ, digest_summary, prompt>>

\* the except branch: client.messages.create(model="claude-3-haiku-20240307",
\* ...), and the generic result if it raises as well
FallbackAttempt ==
    /\ pc = "fallback"
    /\ \E raised \in BOOLEAN :
        /\ sent' = Append(sent, [model |-> "claude-3-haiku-20240307", prompt |-> prompt,
                                 raised |-> raised])
        /\ IF raised
           THEN ret' = SecondFailure(op, arg)
           ELSE \E text \in Responses : ret' = Answer(op, text)
    /\ pc' = "return"
    /\ UNCHANGED <<op, arg, accumulator, tokens, ncalls, heapVars, threadVars,
                   NOTIFICATIONS_STORE, client, environ, digest_summary, prompt>>

\* the function has returned; its locals are gone, the client stays
AfterGenerate ==
    /\ pc = "return" /\ op \in {"generate_insights", "generate_executive_summary"}
    /\ pc' = "idle"
    /\ arg' = NoDigest
    /\ ret' = Pending
    /\ digest_summary' = PyNone
    /\ prompt' = NoPrompt
    /\ sent' = <<>>
    /\ UNCHANGED <<op, accumulator, tokens, ncalls, heapVars, threadVars,
                   NOTIFICATIONS_STORE, client, environ>>

NextInsights ==
    \/ SetApiKey
    \/ CallGenerateInsights
    \/ CallGenerateExecutiveSummary
    \/ FirstAttempt
    \/ FallbackAttempt
    \/ AfterGenerate

SpecInsights == InitInsights /\ [][NextInsights]_vars

-----------------------------------------------------------------------------
(* what the claims speak of *)

Masked == pc = "return" /\ op = "mask_sensitive_data"

MaskedOk == Masked /\ ret.exc = "none"

SensitiveKeys == {"account_number", "client_id", "email", "recipient_email"}

IsContainer(x) == x.t \in {"list", "dict"}

ValueAt(d, k) == d.v[CHOOSE i \in 1..Len(d.v) : d.v[i][1] = k][2]

\* b has the containers of a: the same keys in each mapping, the same length
\* of each sequence, a scalar where a has a scalar
RECURSIVE SameShape(_, _)
SameShape(a, b) ==
    IF a.t = "dict" THEN
        /\ b.t = "dict"
        /\ Len(b.v) = Len(a.v)
        /\ KeysOf(b) = KeysOf(a)
        /\ \A k \in KeysOf(a) : SameShape(ValueAt(a, k), ValueAt(b, k))
    ELSE IF a.t = "list" THEN
        /\ b.t = "list"
        /\ Len(b.v) = Len(a.v)
        /\ \A i \in 1..Len(a.v) : SameShape(a.v[i], b.v[i])
    ELSE ~IsContainer(b)

\* w is the account-number surrogate of the string s
IsAccountSurrogate(s, w) ==
    /\ IsStr(w)
    /\ IF Len(s) <= 4 THEN w.v = <<"*", "*", "*", "*">>
       ELSE /\ Len(w.v) = Len(s)
            /\ \A i \in 1..Len(s) : w.v[i] = IF i > Len(s) - 4 THEN s[i] ELSE "X"

\* w is the email surrogate of the string s: s itself when s has no '@'
IsEmailSurrogate(s, w) ==
    /\ IsStr(w)
    /\ IF \A i \in 1..Len(s) : s[i] # "@" THEN w.v = s
       ELSE LET n == (CHOOSE i \in 1..Len(s) :
                         s[i] = "@" /\ \A j \in 1..Len(s) : s[j] = "@" => i <= j) - 1
            IN  IF n <= 2
                THEN /\ Len(w.v) = Len(s) - n + 2
                     /\ w.v[1] = "*" /\ w.v[2] = "*"
                     /\ \A j \in (n + 1)..Len(s) : w.v[j - n + 2] = s[j]
                ELSE /\ Len(w.v) = Len(s)
                     /\ \A j \in 1..Len(s) : w.v[j] = IF 1 < j /\ j < n THEN "*" ELSE s[j]

\* w is a token: 8 hexadecimal characters
IsToken(w) ==
    /\ IsStr(w)
    /\ Len(w.v) = 8
    /\ \A i \in 1..8 : w.v[i] \in Digits \cup {"a", "b", "c", "d", "e", "f"}

-----------------------------------------------------------------------------
\* C1: for every record R, mask_sensitive_data(R) has the container shape of
\* R: the same keys in every mapping, the same length of every sequence, the
\* same nesting.  (Violated: a list or dict of at most 4 items under
\* account_number comes back as the string "****".)
C1_ShapePreserved == MaskedOk => SameShape(arg, ret.val)

\* C2: mask_sensitive_data raises no exception, and a non-string value under
\* a sensitive or partial-mask key is returned unchanged.  (Violated: a
\* number under such a key raises TypeError or AttributeError, an
\* all-whitespace client_name raises IndexError.)
C2_NeverRaises ==
    Masked =>
        /\ ret.exc = "none"
        /\ arg.t = "dict" =>
             \A i \in 1..Len(arg.v) :
                 (/\ arg.v[i][1] \in SensitiveKeys \cup {"client_name"}
                  /\ ~IsStr(arg.v[i][2]))
                 => ret.val.v[i][2] = arg.v[i][2]

\* some sensitive key of a, at any depth, has a non-empty string value that
\* stands at the same position of b
RECURSIVE Reappears(_, _)
Reappears(a, b) ==
    IF a.t = "dict" /\ b.t = "dict" /\ Len(a.v) = Len(b.v) THEN
        \E i \in 1..Len(a.v) :
            \/ /\ a.v[i][1] \in SensitiveKeys
               /\ IsStr(a.v[i][2]) /\ Len(a.v[i][2].v) > 0
               /\ b.v[i][2] = a.v[i][2]
            \/ Reappears(a.v[i][2], b.v[i][2])
    ELSE IF a.t = "list" /\ b.t = "list" /\ Len(a.v) = Len(b.v) THEN
        \E i \in 1..Len(a.v) : Reappears(a.v[i], b.v[i])
    ELSE FALSE

\* C3, as claimed: the non-empty string value of a sensitive key, at any
\* depth, does not appear in the output at that position.  (Violated: an
\* email value without '@' passes through, and so does a value that is its
\* own surrogate, and a mapping stored under client_name or email is not
\* visited.)
C3_SensitiveValueGone == MaskedOk => ~Reappears(arg, ret.val)

\* every sensitive key of a that the traversal reaches (beneath lists and
\* beneath keys that are neither sensitive nor client_name) has in b the
\* surrogate of its non-empty string value
RECURSIVE Surrogates(_, _)
Surrogates(a, b) ==
    IF a.t = "dict" THEN
        /\ b.t = "dict" /\ Len(b.v) = Len(a.v)
        /\ \A i \in 1..Len(a.v) :
            LET k == a.v[i][1]
                v == a.v[i][2]
                w == b.v[i][2]
            IN  /\ b.v[i][1] = k
                /\ IF k \in SensitiveKeys THEN
                       (IsStr(v) /\ Len(v.v) > 0) =>
                           CASE k = "account_number" -> IsAccountSurrogate(v.v, w)
                             [] k \in {"email", "recipient_email"} -> IsEmailSurrogate(v.v, w)
                             [] OTHER -> IsToken(w)
                   ELSE IF k = "client_name" THEN TRUE
                   ELSE Surrogates(v, w)
    ELSE IF a.t = "list" THEN
        /\ b.t = "list" /\ Len(b.v) = Len(a.v)
        /\ \A i \in 1..Len(a.v) : Surrogates(a.v[i], b.v[i])
    ELSE TRUE

\* C3, amended: when the call returns, every sensitive key in a mapping the
\* traversal reaches has, for a non-empty string value, the field's
\* surrogate at that position: filler and the last 4 characters (or "****")
\* for account_number, the masked local part and the domain for an email
\* with '@' and the value itself for one without, an 8-hex-character token
\* for client_id.
C3_SensitiveValueSurrogate == MaskedOk => Surrogates(arg, ret.val)

\* [{"account_number": s}] with s longer than 4 came back with s replaced
C3_Witness ==
    /\ MaskedOk
    /\ arg.t = "list" /\ Len(arg.v) = 1
    /\ arg.v[1].t = "dict" /\ Len(arg.v[1].v) = 1
    /\ arg.v[1].v[1][1] = "account_number"
    /\ IsStr(arg.v[1].v[1][2]) /\ Len(arg.v[1].v[1][2].v) > 4
    /\ ret.val.v[1].v[1][2] # arg.v[1].v[1][2]

\* the one branch the key k selects, applied to the value v
Branch(k, v) ==
    IF k = "account_number" THEN mask_account_number(v)
    ELSE IF k \in {"email", "recipient_email"} THEN mask_email(v)
    ELSE IF k \in SensitiveKeys THEN hash_value(v)
    ELSE IF k = "client_name" THEN mask_client_name(v)
    ELSE LET r == mask_sensitive_data(v, <<>>) IN [exc |-> r.exc, val |-> r.val]

\* C4: in the mapping pass every key/value pair is handled by exactly one
\* branch, chosen by the key alone: account_number, email or recipient_email,
\* any other sensitive key, client_name, or else the full dispatch rule.
C4_BranchByKey ==
    (Masked /\ arg.t = "dict") =>
        IF ret.exc = "none" THEN
            /\ ret.val.t = "dict" /\ Len(ret.val.v) = Len(arg.v)
            /\ \A i \in 1..Len(arg.v) :
                /\ ret.val.v[i][1] = arg.v[i][1]
                /\ Ok(ret.val.v[i][2]) = Branch(arg.v[i][1], arg.v[i][2])
        ELSE \E i \in 1..Len(arg.v) : Branch(arg.v[i][1], arg.v[i][2]).exc = ret.exc

\* {"email": "ACC123456"}: the value has the shape of an account number, the
\* key selects email masking, which passes it through
C4_Witness ==
    /\ MaskedOk
    /\ arg.t = "dict" /\ Len(arg.v) = 1
    /\ arg.v[1][1] = "email"
    /\ arg.v[1][2] = PyStr(<<"A", "C", "C", "1", "2", "3", "4", "5", "6">>)
    /\ ret.val.v[1][2] = arg.v[1][2]

IsAccountToken(s) ==
    /\ Len(s) > 3
    /\ s[1] = "A" /\ s[2] = "C" /\ s[3] = "C"
    /\ \A i \in 4..Len(s) : s[i] \in Digits

IsClientIdToken(s) ==
    /\ Len(s) > 1
    /\ s[1] = "C"
    /\ \A i \in 2..Len(s) : s[i] \in Digits

IsEmailToken(s) ==
    \E at \in 1..Len(s) : \E dot \in 1..Len(s) :
        /\ s[at] = "@" /\ s[dot] = "."
        /\ 1 < at /\ at + 1 < dot /\ dot + 1 < Len(s)
        /\ \A i \in 1..Len(s) :
            s[i] \in (IF i < at THEN Letters \cup Digits \cup {".", "_", "%", "+", "-"}
                      ELSE IF i = at THEN {"@"}
                      ELSE IF i < dot THEN Letters \cup Digits \cup {".", "-"}
                      ELSE IF i = dot THEN {"."}
                      ELSE Letters)

\* what the dispatch rule returns for a string outside the named fields
Classified(x) ==
    IF IsAccountToken(x.v) THEN mask_account_number(x)
    ELSE IF IsClientIdToken(x.v) THEN hash_value(x)
    ELSE IF IsEmailToken(x.v) THEN mask_email(x)
    ELSE Ok(x)

\* C5: a string that is not under a sensitive or partial-mask key (the
\* record itself, an element of a list, a value of another key) is masked by
\* the transform of the pattern it matches in full, account number, then
\* client id, then email; a string that only contains such a token is
\* returned unchanged.
C5_FullMatchOnly ==
    /\ (Masked /\ IsStr(arg)) => ret = Classified(arg)
    /\ (MaskedOk /\ arg.t = "list") =>
           \A i \in 1..Len(arg.v) :
               IsStr(arg.v[i]) => Ok(ret.val.v[i]) = Classified(arg.v[i])
    /\ (MaskedOk /\ arg.t = "dict") =>
           \A i \in 1..Len(arg.v) :
               (arg.v[i][1] = "description" /\ IsStr(arg.v[i][2]))
               => Ok(ret.val.v[i][2]) = Classified(arg.v[i][2])

\* "ACC1A": an account number followed by a letter came back unchanged
C5_Witness ==
    /\ Masked
    /\ arg = PyStr(<<"A", "C", "C", "1", "A">>)
    /\ ret = Ok(arg)

-----------------------------------------------------------------------------
(* the field transforms, under SpecTransforms *)

Called(o) == pc = "return" /\ op = o

HasNoWhitespace(s) == \A i \in 1..Len(s) : s[i] \notin {" ", "\t", "\n", "\r", "\f"}

\* C6: name masking of a non-empty name with no whitespace in it returns the
\* first character of the name followed by "***".  (Violated: a name without
\* ' ' is returned as it is, "A" comes back as "A".)
C6_SingleWordMasked ==
    (Called("mask_client_name") /\ IsStr(arg) /\ Len(arg.v) > 0 /\ HasNoWhitespace(arg.v))
    => ret = Ok(PyStr(<<arg.v[1], "*", "*", "*">>))

\* s[i] begins a part of s: it is not whitespace, and what precedes it is
IsPartStart(s, i) ==
    /\ HasNoWhitespace(<<s[i]>>)
    /\ (i = 1 \/ ~HasNoWhitespace(<<s[i - 1]>>))

\* C7: name masking of a name of two or more parts returns the first
\* character of the first part, ". ", and the final part, the middle parts
\* dropped; the empty name is returned unchanged.  (Violated: a name whose
\* parts are separated by a tab and no ' ' is returned as it is.)
C7_MultiPartMasked ==
    (Called("mask_client_name") /\ IsStr(arg)) =>
        LET s == arg.v
            starts == {i \in 1..Len(s) : IsPartStart(s, i)}
        IN  IF Len(s) = 0 THEN ret = Ok(arg)
            ELSE Cardinality(starts) >= 2 =>
                 LET first == CHOOSE i \in starts : \A j \in starts : i <= j
                     last == CHOOSE i \in starts : \A j \in starts : j <= i
                     end == CHOOSE e \in last..Len(s) :
                                /\ HasNoWhitespace(SubSeq(s, last, e))
                                /\ (e = Len(s) \/ ~HasNoWhitespace(<<s[e + 1]>>))
                 IN  ret = Ok(PyStr(<<s[first], ".", " ">> \o SubSeq(s, last, end)))

\* C8: account-number masking returns "****" for a non-empty string of at
\* most 4 characters, for a longer one a string of the same length that ends
\* in its last 4 characters and is 'X' before them, and the empty string
\* unchanged.
C8_AccountMask ==
    (Called("mask_account_number") /\ IsStr(arg)) =>
        IF Len(arg.v) = 0 THEN ret = Ok(arg)
        ELSE ret.exc = "none" /\ IsAccountSurrogate(arg.v, ret.val)

\* a string of 6 characters came back as "XX" and its last 4 characters
C8_Witness ==
    /\ Called("mask_account_number")
    /\ IsStr(arg) /\ Len(arg.v) = 6 /\ arg.v[1] # "X"
    /\ ret.exc = "none"
    /\ ret.val.v = <<"X", "X", arg.v[3], arg.v[4], arg.v[5], arg.v[6]>>

\* C9: email masking splits at the first '@' and copies what follows it; a
\* local part of at most 2 characters becomes "**", a longer one keeps its
\* first and last character around '*'s, its length preserved; a string
\* without '@', the empty one too, is returned unchanged.
C9_EmailMask ==
    (Called("mask_email") /\ IsStr(arg)) =>
        ret.exc = "none" /\ IsEmailSurrogate(arg.v, ret.val)

\* a local part of 3 characters before the first of two '@'
C9_Witness ==
    /\ Called("mask_email")
    /\ IsStr(arg) /\ Len(arg.v) = 6
    /\ arg.v[4] = "@" /\ arg.v[6] = "@"
    /\ \A i \in 1..3 : arg.v[i] \notin {"@", "*"}
    /\ ret.exc = "none"
    /\ ret.val.v = <<arg.v[1], "*", arg.v[3], "@", arg.v[5], "@">>

-----------------------------------------------------------------------------
(* the history of tokens, under SpecTokens *)

-----------------------------------------------------------------------------
(* records without sensitive content, under Spec *)

\* x has no sensitive or partial-mask key and no string that matches a
\* sensitive pattern in full
RECURSIVE Safe(_)
Safe(x) ==
    IF x.t = "dict" THEN
        \A i \in 1..Len(x.v) :
            /\ x.v[i][1] \notin SensitiveKeys \cup {"client_name"}
            /\ Safe(x.v[i][2])
    ELSE IF x.t = "list" THEN \A i \in 1..Len(x.v) : Safe(x.v[i])
    ELSE IF x.t = "str" THEN
        ~IsAccountToken(x.v) /\ ~IsClientIdToken(x.v) /\ ~IsEmailToken(x.v)
    ELSE TRUE

\* C11: masking a record with no sensitive or partial-mask key and no string
\* that matches a sensitive pattern in full returns a record equal to the
\* input.
C11_SafeUnchanged == (Masked /\ Safe(arg)) => ret = Ok(arg)

\* {"description": ["ACC12AB"]} came back equal to itself
C11_Witness ==
    /\ MaskedOk
    /\ arg = PyDict(<<<<"description",
                        PyList(<<PyStr(<<"A", "C", "C", "1", "2", "A", "B">>)>>)>>>>)
    /\ ret.val = arg

-----------------------------------------------------------------------------
(* the input and the output as objects, under SpecHeap *)

\* the objects that hold a part of the record at cell
RECURSIVE Objects(_, _)
Objects(h, cell) ==
    IF ~IsRef(cell) THEN {}
    ELSE LET o == h[cell.v] IN
         {cell.v} \cup UNION {Objects(h, IF o.t = "dict" THEN o.v[i][2] ELSE o.v[i]) :
                                i \in 1..Len(o.v)}

\* the objects of the output that the traversal produced: the output itself,
\* the items of its lists, the values of its keys other than the sensitive
\* keys and client_name
RECURSIVE Traversed(_, _)
Traversed(h, cell) ==
    IF ~IsRef(cell) THEN {}
    ELSE LET o == h[cell.v] IN
         {cell.v} \cup UNION {IF o.t = "list" THEN Traversed(h, o.v[i])
                              ELSE IF o.v[i][1] \in SensitiveKeys \cup {"client_name"}
                                   THEN {}
                              ELSE Traversed(h, o.v[i][2]) : i \in 1..Len(o.v)}

\* C12: mask_sensitive_data never modifies its input: after the call, be it
\* returned or raised, the caller's record holds the keys, elements and
\* values it held before; and every dict and list of the output that the
\* traversal reached is a new object, none of the input's.
C12_InputUntouched ==
    (pc = "return" /\ op = "mask_sensitive_data" /\ Len(heap) > 0) =>
        /\ Load(heap, root) = arg
        /\ ret.exc = "none" => Traversed(heap, ret.val) \cap Objects(heap, root) = {}

\* a record of nested containers was masked into a different value, by
\* objects that are all new
C12_Witness ==
    /\ pc = "return" /\ op = "mask_sensitive_data" /\ ret.exc = "none"
    /\ Cardinality(Objects(heap, root)) >= 2
    /\ Load(heap, ret.val) # arg
    /\ Cardinality(Traversed(heap, ret.val)) >= 2

\* the masker on the heap returns what the masker on values returns
HeapAgrees ==
    pc = "return" /\ Len(heap) > 0 =>
        LET r == mask_sensitive_data(arg, <<>>) IN
        /\ ret.exc = r.exc
        /\ accumulator = r.mf
        /\ r.exc = "none" => Load(heap, ret.val) = r.val

-----------------------------------------------------------------------------
(* concurrent calls, under SpecThreads *)

\* C13: top-level masking calls that run concurrently on independent inputs
\* and are passed no accumulator share no mutable state: each call has an
\* accumulator of its own, and under every interleaving each call ends as it
\* ends alone: the same exception or the same output, the same accumulator,
\* its input as it was.
C13_ThreadsIndependent ==
    /\ \A t, u \in 1..Len(threads) :
        (t # u /\ threads[t].pc # "call" /\ threads[u].pc # "call")
        => threads[t].masked_fields # threads[u].masked_fields
    /\ \A t \in 1..Len(threads) :
        threads[t].pc = "done" =>
            LET alone == mask_sensitive_data(threads[t].arg, <<>>) IN
            /\ threads[t].ret.exc = alone.exc
            /\ alone.exc = "none" => Load(heap, threads[t].ret.val) = alone.val
            /\ accs[threads[t].masked_fields] = alone.mf
            /\ Load(heap, threads[t].data) = threads[t].arg

\* two calls are over whose steps were interleaved: an object of the output
\* of the second lies between two objects of the output of the first, and
\* both have masked a field
C13_Witness ==
    /\ Len(threads) >= 2
    /\ threads[1].pc = "done" /\ threads[1].ret.exc = "none"
    /\ threads[2].pc = "done" /\ threads[2].ret.exc = "none"
    /\ accs[threads[1].masked_fields] # {}
    /\ accs[threads[2].masked_fields] # {}
    /\ \E a, c \in Objects(heap, threads[1].ret.val) :
       \E b \in Objects(heap, threads[2].ret.val) : a < b /\ b < c

-----------------------------------------------------------------------------
(* build_digest and the statistics, under SpecDigest *)

\* C19: build_digest raises ValueError for every advisor id that is not in
\* the advisor table, and no call of build_digest, returning or raising,
\* changes the notification store: the same advisor entries, type entries
\* and lists are there after it.
C19_StoreUntouched ==
    [][(pc = "store" /\ pc' = "return") =>
          /\ NOTIFICATIONS_STORE' = NOTIFICATIONS_STORE
          /\ arg' \notin {"A001", "A002", "A003"} => ret'.exc = "ValueError"]_vars

\* an advisor of the table with no entry in a store that has entries got a
\* digest, and has no entry after it
C19_Witness ==
    /\ pc = "return" /\ op = "build_digest"
    /\ arg = "A003" /\ ret.exc = "none"
    /\ DOMAIN NOTIFICATIONS_STORE = {"A001", "A999"}

\* the sum of the values of a tally
RECURSIVE TotalOf(_)
TotalOf(items) == IF Len(items) = 0 THEN 0 ELSE Head(items)[2].v + TotalOf(Tail(items))

\* C20: in the statistics of every digest, total_notifications is the sum of
\* the four counts, each count is the length of its list, each
\* high_priority_count is at most its count, and the by_type and by_status
\* tallies each sum to the count of their category.
C20_StatsConsistent ==
    (pc = "return" /\ op = "build_digest" /\ ret.exc = "none") =>
        LET digest == ret.val
            stats == digest.summary_stats
            mc == ValueAt(stats, "margin_calls")
            rc == ValueAt(stats, "retirement_contributions")
            ca == ValueAt(stats, "corporate_actions")
            oat == ValueAt(stats, "outgoing_account_transfers")
        IN  /\ ValueAt(stats, "total_notifications").v =
                 ValueAt(mc, "count").v + ValueAt(rc, "count").v
                 + ValueAt(ca, "count").v + ValueAt(oat, "count").v
            /\ ValueAt(mc, "count").v = Len(digest.margin_calls)
            /\ ValueAt(rc, "count").v = Len(digest.retirement_contributions)
            /\ ValueAt(ca, "count").v = Len(digest.corporate_actions)
            /\ ValueAt(oat, "count").v = Len(digest.outgoing_account_transfers)
            /\ ValueAt(mc, "high_priority_count").v <= ValueAt(mc, "count").v
            /\ ValueAt(oat, "high_priority_count").v <= ValueAt(oat, "count").v
            /\ TotalOf(ValueAt(ca, "by_type").v) = ValueAt(ca, "count").v
            /\ TotalOf(ValueAt(oat, "by_status").v) = ValueAt(oat, "count").v

\* three corporate actions of two types, among notifications of three categories
C20_Witness ==
    /\ pc = "return" /\ op = "build_digest" /\ ret.exc = "none"
    /\ Len(ret.val.corporate_actions) = 3
    /\ Len(ValueAt(ValueAt(ret.val.summary_stats, "corporate_actions"), "by_type").v) = 2
    /\ Len(ret.val.margin_calls) = 2
    /\ Len(ret.val.outgoing_account_transfers) = 2
    /\ ValueAt(ret.val.summary_stats, "total_notifications").v = 7


-----------------------------------------------------------------------------
(* the parsed response, under SpecParse *)

\* an element of the array that is an object whose fields, where present,
\* have the types of an insight and a priority from 1 to 10
C18_Present(x, key) == \E i \in 1..Len(x.v) : x.v[i][1] = key
C18_Field(x, key) == x.v[CHOOSE i \in 1..Len(x.v) : x.v[i][1] = key][2]
C18_ValidObject(x) ==
    /\ x.t = "dict"
    /\ C18_Present(x, "title") => C18_Field(x, "title").t = "str"
    /\ C18_Present(x, "content") => C18_Field(x, "content").t = "str"
    /\ C18_Present(x, "recommendation") => C18_Field(x, "recommendation").t \in {"str", "none"}
    /\ C18_Present(x, "related_clients") =>
           /\ C18_Field(x, "related_clients").t = "list"
           /\ \A i \in 1..Len(C18_Field(x, "related_clients").v) :
                  C18_Field(x, "related_clients").v[i].t = "str"
    /\ C18_Present(x, "priority") =>
           /\ C18_Field(x, "priority").t = "int"
           /\ C18_Field(x, "priority").v \in 1..10

\* the insight of a valid object, its missing fields defaulted
C18_InsightOf(x) ==
    [title |-> IF C18_Present(x, "title") THEN C18_Field(x, "title")
               ELSE PyStr("Untitled Insight"),
     content |-> IF C18_Present(x, "content") THEN C18_Field(x, "content") ELSE PyStr(""),
     recommendation |-> IF C18_Present(x, "recommendation")
                        THEN C18_Field(x, "recommendation") ELSE PyNone,
     related_clients |-> IF C18_Present(x, "related_clients")
                         THEN C18_Field(x, "related_clients") ELSE PyList(<<>>),
     priority |-> IF C18_Present(x, "priority") THEN C18_Field(x, "priority") ELSE PyInt(3)]

\* C18: _parse_claude_response never raises.  When the text holds, between
\* its first '[' and its last ']', a JSON array of valid objects, it
\* returns one insight per element, in order, missing fields defaulted; in
\* every other case (no array, text that does not parse, an invalid
\* element) it returns the empty list.
C18_ParseNeverRaises ==
    (pc = "return" /\ op = "_parse_claude_response") =>
        /\ ret.exc = "none"
        /\ IF /\ arg.edit \in {"none", "prose before", "prose after", "prose around"}
              /\ \A i \in 1..Len(arg.doc) : C18_ValidObject(arg.doc[i])
           THEN ret.val = [i \in 1..Len(arg.doc) |-> C18_InsightOf(arg.doc[i])]
           ELSE ret.val = <<>>

\* an array of an empty object and a full one, in prose, parsed into two
\* insights
C18_Witness ==
    /\ pc = "return" /\ op = "_parse_claude_response"
    /\ arg.edit = "prose around"
    /\ Len(arg.doc) = 2 /\ arg.doc[1] = PyDict(<<>>)
    /\ arg.doc[2].t = "dict" /\ C18_Present(arg.doc[2], "related_clients")
    /\ Len(ret.val) = 2
    /\ ret.val[1].title = PyStr("Untitled Insight")
    /\ ret.val[2].priority = PyInt(5)


-----------------------------------------------------------------------------
(* the service calls of generate_insights and generate_executive_summary,
   under SpecInsights *)

\* the summary of the digest in hand, passed through mask_sensitive_data
C14_Masked == mask_sensitive_data(Summary(arg), <<>>)

\* C14: every call of the service, the first attempt and the fallback, is
\* made after the summary of the digest has been masked, and the digest data
\* of its prompt is the masked summary: no call carries the summary as
\* _create_digest_summary first builds it.
C14_MaskedBeforeSent ==
    (op \in {"generate_insights", "generate_executive_summary"}
     /\ (pc \in {"first", "fallback"} \/ sent # <<>>)) =>
        \A masked \in {C14_Masked} :
        /\ masked.exc = "none"
        /\ digest_summary = masked.val
        /\ \A i \in 1..Len(sent) :
            /\ sent[i].prompt.digest_json = json_dumps(masked.val)
            /\ sent[i].prompt.digest_json # json_dumps(Summary(arg))
                  \/ masked.val = Summary(arg)
            /\ op = "generate_executive_summary" =>
                  \A k \in 1..Len(sent[i].prompt.context[4]) :
                      sent[i].prompt.context[4][k][1] \in
                          {DictGet(x, "client_name", PyNone) :
                              x \in {AllItems(masked.val)[n] :
                                        n \in 1..Len(AllItems(masked.val))}}

\* the fallback attempt of generate_insights has been made for a digest with
\* a margin call, whose summary masking changes
C14_Witness ==
    /\ op = "generate_insights" /\ pc = "return"
    /\ Len(sent) = 2
    /\ Len(arg.margin_calls) > 0
    /\ C14_Masked.val # Summary(arg)
    /\ sent[2].prompt.digest_json = json_dumps(digest_summary)

\* C15: one invocation calls the service at most twice; the second call is
\* the fallback and is made only if the first raised; and when the fallback
\* raises too, the function returns its generic result (the two generic
\* insights, or the generic sentence) and does not raise.
C15_AtMostTwoCalls ==
    op \in {"generate_insights", "generate_executive_summary"} =>
        /\ Len(sent) <= 2
        /\ Len(sent) >= 1 => sent[1].model = "claude-3-opus-20240229"
        /\ Len(sent) = 2 => sent[1].raised /\ sent[2].model = "claude-3-haiku-20240307"
        /\ pc = "fallback" => Len(sent) = 1 /\ sent[1].raised
        /\ (pc = "return" /\ Len(sent) = 1) => ~sent[1].raised
        /\ (pc = "return" /\ Len(sent) = 2 /\ sent[2].raised) =>
              /\ ret.exc = "none"
              /\ IF op = "generate_insights"
                 THEN /\ Len(ret.val) = 2
                      /\ ret.val[1].title = PyStr("High Priority Margin Calls")
                      /\ ret.val[2].title = PyStr("Retirement Contribution Summary")
                 ELSE /\ ret.val.t = "str"
                      /\ ret.val.v[1] = "Daily digest for "
                      /\ ret.val.v[2] = arg.date

\* both attempts of generate_executive_summary have raised, and it has
\* returned
C15_Witness ==
    /\ op = "generate_executive_summary" /\ pc = "return"
    /\ Len(sent) = 2 /\ sent[1].raised /\ sent[2].raised
    /\ ret.exc = "none"

\* without a client and without a key, no call of the service is made
NoKeyNoCall == (client = "None") => sent = <<>>

\* C16: when no API key is available and no client can be made,
\* generate_insights returns an empty list and does not call the service.
C16_EmptyWithoutKey ==
    (op = "generate_insights" /\ pc = "return" /\ client = "None") =>
        /\ ret.exc = "none"
        /\ ret.val = <<>>
        /\ sent = <<>>

C17_Has(d, key) == \E i \in 1..Len(d.v) : d.v[i][1] = key

\* C17: the mapping of _create_digest_summary has the sections advisor (with
\* the advisor's id and name), margin_calls, retirement_contributions,
\* corporate_actions and summary_stats, one entry per notification of the
\* digest in each category, and each entry's client_name and amount are
\* those of the notification.
C17_SummaryOfDigest ==
    (op \in {"generate_insights", "generate_executive_summary"} /\ pc = "first") =>
        /\ \A section \in {"advisor", "margin_calls", "retirement_contributions",
                           "corporate_actions", "summary_stats"} :
               C17_Has(digest_summary, section)
        /\ DictGet(DictGet(digest_summary, "advisor", PyDict(<<>>)), "id", PyNone)
               = PyStr(Chars(arg.advisor_id))
        /\ DictGet(DictGet(digest_summary, "advisor", PyDict(<<>>)), "name", PyNone)
               = PyStr(Chars(arg.advisor_name))
        /\ Len(Category(digest_summary, "margin_calls")) = Len(arg.margin_calls)
        /\ Len(Category(digest_summary, "retirement_contributions"))
               = Len(arg.retirement_contributions)
        /\ Len(Category(digest_summary, "corporate_actions")) = Len(arg.corporate_actions)
        /\ \A i \in 1..Len(arg.margin_calls) :
               LET entry == Category(digest_summary, "margin_calls")[i] IN
               /\ DictGet(entry, "client_name", PyNone)
                      = PyStr(Chars(arg.margin_calls[i].client_name))
               /\ DictGet(entry, "call_amount", PyNone)
                      = PyInt(arg.margin_calls[i].call_amount)
        /\ \A i \in 1..Len(arg.retirement_contributions) :
               LET entry == Category(digest_summary, "retirement_contributions")[i] IN
               /\ DictGet(entry, "client_name", PyNone)
                      = PyStr(Chars(arg.retirement_contributions[i].client_name))
               /\ DictGet(entry, "contribution_amount", PyNone)
                      = PyInt(arg.retirement_contributions[i].contribution_amount)
        /\ \A i \in 1..Len(arg.corporate_actions) :
               DictGet(Category(digest_summary, "corporate_actions")[i], "client_name", PyNone)
                   = PyStr(Chars(arg.corporate_actions[i].client_name))


-----------------------------------------------------------------------------
(* the three patterns on one string, under Spec *)

\* the patterns in the order p, tried on s as the elif chain tries them: the
\* name of the first that fully matches, or "none"
C26_Matches(name, s) ==
    CASE name = "account" -> ACCOUNT_NUMBER_PATTERN(s)
      [] name = "client_id" -> CLIENT_ID_PATTERN(s)
      [] name = "email" -> EMAIL_PATTERN(s)

C26_Classify(p, s) ==
    IF C26_Matches(p[1], s) THEN p[1]
    ELSE IF C26_Matches(p[2], s) THEN p[2]
    ELSE IF C26_Matches(p[3], s) THEN p[3]
    ELSE "none"

C26_Orders ==
    {p \in [1..3 -> {"account", "client_id", "email"}] :
        \A i, j \in 1..3 : i # j => p[i] # p[j]}

\* the order of the elif chain of mask_sensitive_data
C26_SourceOrder == <<"account", "client_id", "email">>

\* C26: no string fully matches more than one of the account-number,
\* client-id and email patterns, so every order of trying the three
\* patterns classifies a string alike.
C26_PatternsDisjoint ==
    IsStr(arg) =>
        /\ ~(ACCOUNT_NUMBER_PATTERN(arg.v) /\ CLIENT_ID_PATTERN(arg.v))
        /\ ~(ACCOUNT_NUMBER_PATTERN(arg.v) /\ EMAIL_PATTERN(arg.v))
        /\ ~(CLIENT_ID_PATTERN(arg.v) /\ EMAIL_PATTERN(arg.v))
        /\ \A p \in C26_Orders :
               C26_Classify(p, arg.v) = C26_Classify(C26_SourceOrder, arg.v)

\* a string that the email pattern matches has been classified and masked
C26_Witness ==
    /\ pc = "return" /\ op = "mask_sensitive_data"
    /\ IsStr(arg) /\ EMAIL_PATTERN(arg.v)
    /\ ret.exc = "none" /\ ret.val # arg


-----------------------------------------------------------------------------
(* a transform applied to its own output, under SpecTransforms *)

C27_Again(o, x) ==
    CASE o = "mask_account_number" -> mask_account_number(x)
      [] o = "mask_email" -> mask_email(x)
      [] o = "mask_client_name" -> mask_client_name(x)

C27_Key(o) ==
    CASE o = "mask_account_number" -> "account_number"
      [] o = "mask_email" -> "email"
      [] o = "mask_client_name" -> "client_name"

\* C27: mask_account_number, mask_email and mask_client_name, applied to
\* their own output for a string, return that output unchanged; and masking
\* again the masked record that holds the string under the transform's key
\* changes nothing.
C27_Idempotent ==
    (pc = "return" /\ op \in {"mask_account_number", "mask_email", "mask_client_name"}
     /\ IsStr(arg) /\ ret.exc = "none") =>
        /\ C27_Again(op, ret.val) = Ok(ret.val)
        /\ \A once \in {mask_sensitive_data(PyDict(<<<<C27_Key(op), arg>>>>), <<>>)} :
            /\ once.exc = "none"
            /\ once.val = PyDict(<<<<C27_Key(op), ret.val>>>>)
            /\ mask_sensitive_data(once.val, <<>>).exc = "none"
            /\ mask_sensitive_data(once.val, <<>>).val = once.val

\* a name of two parts has been masked to another string, which masking
\* leaves as it is
C27_Witness ==
    /\ pc = "return" /\ op = "mask_client_name"
    /\ IsStr(arg) /\ ret.exc = "none" /\ ret.val # arg
    /\ Len(split(arg.v)) >= 2
    /\ mask_client_name(ret.val) = Ok(ret.val)


\* a and b are the same value but for what stands under a client_id key
RECURSIVE C27_SameButHashes(_, _)
C27_SameButHashes(a, b) ==
    IF a.t = "dict" THEN
        /\ b.t = "dict" /\ Len(b.v) = Len(a.v)
        /\ \A i \in 1..Len(a.v) :
            /\ b.v[i][1] = a.v[i][1]
            /\ \/ a.v[i][1] = "client_id"
               \/ IF a.v[i][1] \in SENSITIVE_FIELDS \cup PARTIAL_MASK_FIELDS
                  THEN b.v[i][2] = a.v[i][2]
                  ELSE C27_SameButHashes(a.v[i][2], b.v[i][2])
    ELSE IF a.t = "list" THEN
        /\ b.t = "list" /\ Len(b.v) = Len(a.v)
        /\ \A i \in 1..Len(a.v) : C27_SameButHashes(a.v[i], b.v[i])
    ELSE b = a

\* masking a masked structure again returns it with no value changed other
\* than those under client_id, which are hashed once more
RemaskedButHashes ==
    MaskedOk => \A again \in {mask_sensitive_data(ret.val, <<>>)} :
                    /\ again.exc = "none"
                    /\ C27_SameButHashes(ret.val, again.val)

\* a record whose client_id has been hashed and whose second masking differs
RemaskedDiffers ==
    /\ MaskedOk /\ ret.val.t = "dict"
    /\ mask_sensitive_data(ret.val, <<>>).val # ret.val


-----------------------------------------------------------------------------
(* the set passed as masked_fields, under Spec *)

\* the sets a caller may pass as masked_fields
C25_Initial == SUBSET {"email", "client_name", "other"}

\* the transform mask_dict applies to the value under a listed key
C25_Transform(key, value) ==
    IF key = "account_number" THEN mask_account_number(value)
    ELSE IF key = "email" \/ key = "recipient_email" THEN mask_email(value)
    ELSE IF key = "client_id" THEN hash_value(value)
    ELSE mask_client_name(value)

\* the listed keys met by the traversal of x, in its order, up to and with
\* the key at which the call raises, if it does: keys are the keys met so
\* far, raised tells that the traversal has ended
RECURSIVE C25_Met(_, _)
RECURSIVE C25_MetIn(_, _, _)
C25_Met(x, sofar) ==
    IF sofar.raised \/ ~IsContainer(x) THEN sofar
    ELSE C25_MetIn(x.v, x.t = "dict", sofar)

C25_MetIn(items, isDict, sofar) ==
    IF sofar.raised \/ Len(items) = 0 THEN sofar
    ELSE IF ~isDict THEN C25_MetIn(Tail(items), isDict, C25_Met(Head(items), sofar))
    ELSE IF Head(items)[1] \in SENSITIVE_FIELDS \cup PARTIAL_MASK_FIELDS THEN
        C25_MetIn(Tail(items), isDict,
                  [keys |-> sofar.keys \cup {Head(items)[1]},
                   raised |-> C25_Transform(Head(items)[1], Head(items)[2]).exc # "none"])
    ELSE C25_MetIn(Tail(items), isDict, C25_Met(Head(items)[2], sofar))

C25_KeysMet(x) == C25_Met(x, [keys |-> {}, raised |-> FALSE]).keys

\* C25: whatever set is passed as masked_fields, the call ends as it ends
\* with none passed (same value returned), the set afterwards holds what it
\* held before, and it is what it held before united with exactly the
\* sensitive and partial-mask keys met in the mappings the traversal reached.
C25_AccumulatorInformational ==
    Masked => \A initial \in C25_Initial :
              \A r \in {mask_sensitive_data(arg, <<initial>>)} :
                  /\ r.exc = ret.exc /\ r.val = ret.val
                  /\ initial \subseteq r.mf
                  /\ r.mf = initial \cup C25_KeysMet(arg)

\* the same for the calls that return
AccumulatorOfReturnedCall ==
    MaskedOk => \A initial \in C25_Initial :
                \A r \in {mask_sensitive_data(arg, <<initial>>)} :
                    /\ r.exc = ret.exc /\ r.val = ret.val
                    /\ initial \subseteq r.mf
                    /\ r.mf = initial \cup C25_KeysMet(arg)
                    /\ accumulator = C25_KeysMet(arg)

\* a call has returned that met a listed key in a nested mapping
AccumulatorGrown ==
    /\ MaskedOk /\ arg.t = "list" /\ accumulator # {}


-----------------------------------------------------------------------------
(* store_notifications and build_digest as a caller sees them: each call
   with its arguments, the digest for a date that the caller chooses *)

\* the most calls of store_notifications in a run
MaxWrites == 2

\* the dates digests are asked for
Dates == {"2025-01-15", "2025-01-20"}

\* a notification with the timestamp field the models give it
Stamped(n) ==
    [f \in DOMAIN n \cup {"timestamp"} |->
        IF f = "timestamp"
        THEN [date |-> IF n.client_id = "C001" THEN "2025-01-10" ELSE "2025-01-20",
              time |-> "09:00:00"]
        ELSE n[f]]

\* the lists passed to store_notifications for a type
StampedNotifications(type) ==
    {[i \in 1..Len(ns) |-> Stamped(ns[i])] : ns \in Notifications(type)}

\* no call yet
NoCall == [advisor_id |-> "", notification_type |-> "", notifications |-> <<>>,
           digest_date |-> ""]

InitStore ==
    /\ op = "store_notifications"
    /\ arg = NoCall
    /\ pc = "idle"
    /\ Fresh

\* store_notifications(advisor_id, notification_type, notifications)
StoreNotifications ==
    /\ pc = "idle" /\ ncalls < MaxWrites
    /\ \E a \in {"A001", "A002"} : \E type \in EmailTypes :
       \E ns \in StampedNotifications(type) :
        /\ NOTIFICATIONS_STORE' = store_notifications(a, type, ns, NOTIFICATIONS_STORE)
        /\ arg' = [advisor_id |-> a, notification_type |-> type, notifications |-> ns,
                   digest_date |-> ""]
    /\ op' = "store_notifications"
    /\ ncalls' = ncalls + 1
    /\ UNCHANGED <<pc, ret, accumulator, tokens, heapVars, threadVars, insightVars>>

\* build_digest(advisor_id, digest_date)
BuildDigest ==
    /\ pc = "idle"
    /\ \E a \in {"A001", "A002", "A999"} : \E d \in Dates :
        LET r == build_digest(a, d, NOTIFICATIONS_STORE) IN
        /\ arg' = [advisor_id |-> a, notification_type |-> "", notifications |-> <<>>,
                   digest_date |-> d]
        /\ ret' = [exc |-> r.exc, val |-> r.val]
        /\ NOTIFICATIONS_STORE' = r.store
    /\ op' = "build_digest"
    /\ pc' = "return"
    /\ UNCHANGED <<accumulator, tokens, ncalls, heapVars, threadVars, insightVars>>

\* the caller goes on
AfterDigest ==
    /\ pc = "return" /\ op = "build_digest"
    /\ pc' = "idle"
    /\ ret' = Pending
    /\ arg' = NoCall
    /\ op' = "store_notifications"
    /\ UNCHANGED <<accumulator, tokens, ncalls, heapVars, threadVars,
                   NOTIFICATIONS_STORE, insightVars>>

NextStore ==
    \/ StoreNotifications
    \/ BuildDigest
    \/ AfterDigest

SpecStore == InitStore /\ [][NextStore]_vars

-----------------------------------------------------------------------------
(* the lists of a digest, under SpecStore *)

\* the list of a digest that build_digest fills for a type
C28_ListOf(digest, type) ==
    CASE type = "margin_call" -> digest.margin_calls
      [] type = "retirement_contribution" -> digest.retirement_contributions
      [] type = "corporate_action" -> digest.corporate_actions
      [] type = "outgoing account transfer" -> digest.outgoing_account_transfers

\* C28: a call store_notifications(a, type, ns) makes ns the list stored for
\* (a, type) and leaves the list of every other pair as it was, so that the
\* list of a pair is always the one most recently stored for it (none before
\* the first store); and build_digest for a known advisor returns for each of
\* the four types exactly the list then stored for the advisor, empty if
\* there is none.
C28_LastWriteWins ==
    [][/\ (op' = "store_notifications" /\ ncalls' = ncalls + 1) =>
            \A b \in DOMAIN ADVISOR_DATA \cup {"A999"} : \A t \in EmailTypes :
                /\ Stored(NOTIFICATIONS_STORE', b, t) =
                      IF b = arg'.advisor_id /\ t = arg'.notification_type
                      THEN arg'.notifications
                      ELSE Stored(NOTIFICATIONS_STORE, b, t)
                /\ b \in DOMAIN ADVISOR_DATA =>
                      \A d \in Dates :
                        C28_ListOf(build_digest(b, d, NOTIFICATIONS_STORE').val, t)
                           = Stored(NOTIFICATIONS_STORE', b, t)
       /\ (pc' = "return" /\ pc = "idle" /\ ret'.exc = "none") =>
            \A t \in EmailTypes :
                C28_ListOf(ret'.val, t) = Stored(NOTIFICATIONS_STORE, arg'.advisor_id, t)
      ]_vars

\* a digest built after two stores for the same advisor and type: it holds
\* the one list that is stored
C28_Witness ==
    /\ pc = "return" /\ op = "build_digest" /\ ret.exc = "none"
    /\ ncalls = 2
    /\ DOMAIN NOTIFICATIONS_STORE = {arg.advisor_id}
    /\ DOMAIN NOTIFICATIONS_STORE[arg.advisor_id] = {"margin_call"}
    /\ Len(ret.val.margin_calls) = 1
    /\ ret.val.retirement_contributions = <<>>

\* C30: for the store as it is and an advisor, build_digest with any two
\* dates ends the same way, and the two digests differ in the date field
\* only; each holds every notification stored for the advisor, whatever its
\* timestamp.
C30_DateIndependent ==
    (pc = "return" /\ op = "build_digest") =>
        \A d \in Dates :
        \A other \in {build_digest(arg.advisor_id, d, NOTIFICATIONS_STORE)} :
            /\ other.exc = ret.exc
            /\ ret.exc = "none" =>
                /\ ret.val.date = arg.digest_date /\ other.val.date = d
                /\ [other.val EXCEPT !.date = ret.val.date] = ret.val
                /\ \A t \in EmailTypes :
                     C28_ListOf(other.val, t)
                        = Stored(NOTIFICATIONS_STORE, arg.advisor_id, t)

\* a digest for a date that holds a notification stamped before the date and
\* one stamped after it
C30_Witness ==
    /\ pc = "return" /\ op = "build_digest" /\ ret.exc = "none"
    /\ arg.digest_date = "2025-01-15"
    /\ \E i, j \in 1..Len(ret.val.margin_calls) :
        /\ ret.val.margin_calls[i].timestamp.date = "2025-01-10"
        /\ ret.val.margin_calls[j].timestamp.date = "2025-01-20"


-----------------------------------------------------------------------------
(* email_processor.process_emails, and the workflow that stores its result
   and builds a digest *)

\* class EmailType(str, Enum): the members
EmailTypeMembers ==
    {"MARGIN_CALL", "RETIREMENT_CONTRIBUTION", "CORPORATE_ACTION",
     "OUTGOING_ACCOUNT_TRANSFER"}

\* a value table in which every member is spelled like the first three
EmailType_value_underscored(member) ==
    CASE member = "MARGIN_CALL" -> "margin_call"
      [] member = "RETIREMENT_CONTRIBUTION" -> "retirement_contribution"
      [] member = "CORPORATE_ACTION" -> "corporate_action"
      [] member = "OUTGOING_ACCOUNT_TRANSFER" -> "outgoing_account_transfer"

\* EmailType.<member>.value
EmailType_value(member) ==
    CASE member = "MARGIN_CALL" -> "margin_call"
      [] member = "RETIREMENT_CONTRIBUTION" -> "retirement_contribution"
      [] member = "CORPORATE_ACTION" -> "corporate_action"
      [] member = "OUTGOING_ACCOUNT_TRANSFER" -> "outgoing account transfer"

\* datetime.now() where a converter reads the clock
Now == [date |-> "2025-01-15", time |-> "08:00:00"]

\* metadata.get(key, default)
metadata_get(metadata, key, default) ==
    IF key \in DOMAIN metadata THEN metadata[key] ELSE default

\* float(x), int(x): a number, a string that spells one, or an error
float(x) ==
    IF x.t = "int" THEN Ok(x.v)
    ELSE IF x.t = "str" THEN
        IF x.v = "5000" THEN Ok(5000)
        ELSE IF x.v = "2025" THEN Ok(2025)
        ELSE Raise("ValueError")
    ELSE Raise("TypeError")

\* datetime.fromisoformat(x).date()
fromisoformat_date(x) ==
    IF x.t # "str" THEN Raise("TypeError")
    ELSE IF x.v \in {"2025-01-15", "2025-01-16", "2025-01-17", "2025-01-20"}
    THEN Ok(x.v)
    ELSE Raise("ValueError")

\* the arguments of a model's constructor are evaluated in order: the first
\* one that raises ends the conversion
FirstRaise(rs) ==
    IF \A i \in 1..Len(rs) : rs[i].exc = "none" THEN "none"
    ELSE rs[CHOOSE i \in 1..Len(rs) :
                /\ rs[i].exc # "none"
                /\ \A j \in 1..(i - 1) : rs[j].exc = "none"].exc

Converted(rs, notification) ==
    IF FirstRaise(rs) = "none" THEN Ok(notification)
    ELSE Raise(FirstRaise(rs))

\* the string a field of metadata holds, "" by default
Text(metadata, key) == metadata_get(metadata, key, PyStr("")).v

\* def _convert_to_margin_call(email)
_convert_to_margin_call(email) ==
    LET metadata == email.metadata
        call_amount == float(metadata_get(metadata, "call_amount", PyInt(0)))
        due_date == fromisoformat_date(metadata_get(metadata, "due_date", PyStr(Now.date)))
        current == float(metadata_get(metadata, "current_margin_percentage", PyInt(0)))
        required == float(metadata_get(metadata, "required_margin_percentage", PyInt(0)))
    IN  Converted(<<call_amount, due_date, current, required>>,
            [id |-> email.id, client_id |-> email.client_id,
             client_name |-> email.client_name,
             account_number |-> Text(metadata, "account_number"),
             call_amount |-> call_amount.val, due_date |-> due_date.val,
             current_margin_percentage |-> current.val,
             required_margin_percentage |-> required.val,
             timestamp |-> email.timestamp, priority |-> email.priority])

\* def _convert_to_retirement_contribution(email)
_convert_to_retirement_contribution(email) ==
    LET metadata == email.metadata
        contribution_amount ==
            float(metadata_get(metadata, "contribution_amount", PyInt(0)))
        tax_year == float(metadata_get(metadata, "tax_year", PyInt(2025)))
    IN  Converted(<<contribution_amount, tax_year>>,
            [id |-> email.id, client_id |-> email.client_id,
             client_name |-> email.client_name,
             account_number |-> Text(metadata, "account_number"),
             contribution_amount |-> contribution_amount.val,
             contribution_type |-> Text(metadata, "contribution_type"),
             tax_year |-> tax_year.val,
             timestamp |-> email.timestamp, priority |-> email.priority])

\* def _convert_to_corporate_action(email)
_convert_to_corporate_action(email) ==
    LET metadata == email.metadata
        deadline_date ==
            fromisoformat_date(metadata_get(metadata, "deadline_date", PyStr(Now.date)))
    IN  Converted(<<deadline_date>>,
            [id |-> email.id, client_id |-> email.client_id,
             client_name |-> email.client_name,
             account_number |-> Text(metadata, "account_number"),
             security_id |-> Text(metadata, "security_id"),
             security_name |-> Text(metadata, "security_name"),
             action_type |-> Text(metadata, "action_type"),
             deadline_date |-> deadline_date.val,
             description |-> Text(metadata, "description"),
             timestamp |-> email.timestamp, priority |-> email.priority])

\* def _convert_to_outgoing_account_transfer(email)
_convert_to_outgoing_account_transfer(email) ==
    LET metadata == email.metadata
        net_amount == float(metadata_get(metadata, "net_amount", PyInt(0)))
        gross_amount == float(metadata_get(metadata, "gross_amount", PyInt(0)))
        entry_date ==
            fromisoformat_date(metadata_get(metadata, "entry_date", PyStr(Now.date)))
        payment_date ==
            fromisoformat_date(metadata_get(metadata, "payment_date", PyStr(Now.date)))
    IN  Converted(<<net_amount, gross_amount, entry_date, payment_date>>,
            [id |-> email.id, client_id |-> email.client_id,
             client_name |-> email.client_name,
             account_number |-> Text(metadata, "account_number"),
             account_type |-> Text(metadata, "account_type"),
             net_amount |-> net_amount.val, gross_amount |-> gross_amount.val,
             transfer_type |-> Text(metadata, "transfer_type"),
             entry_date |-> entry_date.val, payment_date |-> payment_date.val,
             status |-> Text(metadata, "status"),
             description |-> Text(metadata, "description"),
             timestamp |-> email.timestamp, priority |-> email.priority])

\* d.get(key, default) on the items of a dict, kept in insertion order
ItemsGet(items, key, default) ==
    IF \E i \in 1..Len(items) : items[i][1] = key
    THEN items[CHOOSE i \in 1..Len(items) : items[i][1] = key][2]
    ELSE default

\* d[key] = value: in place for a key that is there, at the end for a new one
ItemsSet(items, key, value) ==
    IF \E i \in 1..Len(items) : items[i][1] = key
    THEN [i \in 1..Len(items) |-> IF items[i][1] = key THEN <<key, value>> ELSE items[i]]
    ELSE Append(items, <<key, value>>)

\* a grouping that puts the notification in front of its group
append_first(advisor_emails, advisor_id, notification_type, notification) ==
    Only({ItemsSet(advisor_emails, advisor_id,
                   ItemsSet(mine, notification_type,
                            <<notification>>
                               \o ItemsGet(mine, notification_type, <<>>)) ) :
             mine \in {ItemsGet(advisor_emails, advisor_id, <<>>)}})

\* advisor_emails[advisor_id][notification_type].append(notification), on
\* defaultdicts
append(advisor_emails, advisor_id, notification_type, notification) ==
    Only({ItemsSet(advisor_emails, advisor_id,
                   ItemsSet(mine, notification_type,
                            Append(ItemsGet(mine, notification_type, <<>>),
                                   notification))) :
             mine \in {ItemsGet(advisor_emails, advisor_id, <<>>)}})

\* the loop of process_emails from the i-th email on
RECURSIVE process_emails_from(_, _, _)
process_emails_from(emails, i, advisor_emails) ==
    IF i > Len(emails) THEN Ok(advisor_emails)
    ELSE Only({
        IF email.type \notin EmailTypeMembers
        THEN process_emails_from(emails, i + 1, sofar)
        ELSE Only({IF notification.exc # "none" THEN notification
                   ELSE process_emails_from(emails, i + 1,
                            append(sofar, email.recipient_id,
                                   EmailType_value(email.type), notification.val)) :
                      notification \in
                         {CASE email.type = "MARGIN_CALL" ->
                                  _convert_to_margin_call(email)
                            [] email.type = "RETIREMENT_CONTRIBUTION" ->
                                  _convert_to_retirement_contribution(email)
                            [] email.type = "CORPORATE_ACTION" ->
                                  _convert_to_corporate_action(email)
                            [] email.type = "OUTGOING_ACCOUNT_TRANSFER" ->
                                  _convert_to_outgoing_account_transfer(email)}}) :
           email \in {emails[i]}, sofar \in {advisor_emails}})

\* def process_emails(email_data): the result is a dict of dicts of lists
process_emails(email_data) ==
    Only({IF r.exc # "none" THEN r
          ELSE Ok(PyDict([i \in 1..Len(r.val) |->
                            <<r.val[i][1], PyDict(r.val[i][2])>>])) :
             r \in {process_emails_from(email_data.emails, 1, <<>>)}})


\* the most emails of a batch
MaxEmails == 3

\* the id of the i-th email of a batch
EmailId(i) == <<"e1", "e2", "e3", "e4", "e5">>[i]

\* the metadata of the emails: complete, with a number spelled as a string,
\* with a field that spells no number, or with no field at all
Metadata(type) ==
    CASE type = "MARGIN_CALL" ->
           {[account_number |-> PyStr("ACC123456"), call_amount |-> PyInt(5000),
             due_date |-> PyStr("2025-01-17"),
             current_margin_percentage |-> PyInt(15),
             required_margin_percentage |-> PyInt(25)],
            <<>>}
      [] type = "RETIREMENT_CONTRIBUTION" ->
           {[account_number |-> PyStr("ACC789012"),
             contribution_amount |-> PyStr("5000"),
             contribution_type |-> PyStr("IRA"), tax_year |-> PyInt(2025)],
            [account_number |-> PyStr("ACC789012"),
             contribution_amount |-> PyStr("n/a"),
             contribution_type |-> PyStr("IRA"), tax_year |-> PyInt(2025)]}
      [] type = "CORPORATE_ACTION" ->
           {[account_number |-> PyStr("ACC123456"), security_id |-> PyStr("SEC1"),
             security_name |-> PyStr("Acme"), action_type |-> PyStr("merger"),
             deadline_date |-> PyStr("2025-01-20"),
             description |-> PyStr("tender offer")]}
      [] type = "OUTGOING_ACCOUNT_TRANSFER" ->
           {[account_number |-> PyStr("ACC123456"), account_type |-> PyStr("IRA"),
             net_amount |-> PyInt(1000), gross_amount |-> PyInt(1010),
             transfer_type |-> PyStr("Wire"), entry_date |-> PyStr("2025-01-15"),
             payment_date |-> PyStr("2025-01-16"), status |-> PyStr("Pending"),
             description |-> PyStr("transfer out")]}

\* models.EmailNotification
EmailNotification(id, type, recipient_id, timestamp, metadata) ==
    [id |-> id, type |-> type, subject |-> "margin call", body |-> "",
     recipient_id |-> recipient_id,
     recipient_email |-> IF recipient_id \in DOMAIN ADVISOR_DATA
                         THEN ADVISOR_DATA[recipient_id].email ELSE "",
     client_id |-> IF recipient_id = "A001" THEN "C001" ELSE "C002",
     client_name |-> IF recipient_id = "A001" THEN "Alice Johnson" ELSE "Bob Williams",
     timestamp |-> timestamp, metadata |-> metadata, priority |-> 5]

\* the emails that may stand at place i of a batch: of every type and
\* metadata, for two advisors
Emails(i) ==
    UNION {{EmailNotification(EmailId(i), type, recipient_id,
                [date |-> IF i % 2 = 1 THEN "2025-01-10" ELSE "2025-01-20",
                 time |-> "09:00:00"],
                metadata) :
               recipient_id \in {"A001", "A002"}, metadata \in Metadata(type)} :
           type \in EmailTypeMembers}

\* no digest asked for yet
NoRequest == [emails |-> <<>>, advisor_id |-> "", digest_date |-> ""]


InitWorkflow ==
    /\ op = "process_emails"
    /\ arg = NoRequest
    /\ pc = "receive"
    /\ Fresh

\* email_data.emails.append(email)
ReceiveEmail ==
    /\ pc = "receive" /\ Len(arg.emails) < MaxEmails
    /\ \E email \in Emails(Len(arg.emails) + 1) :
        arg' = [arg EXCEPT !.emails = Append(@, email)]
    /\ UNCHANGED <<op, pc, ret, accumulator, tokens, ncalls>>
    /\ UNCHANGED elsewhere

\* processed_data = process_emails(email_data)
CallProcessEmails ==
    /\ pc = "receive"
    /\ ret' = process_emails(arg)
    /\ pc' = "processed"
    /\ UNCHANGED <<op, arg, accumulator, tokens, ncalls>>
    /\ UNCHANGED elsewhere

\* for notification_type, items in notifications.items():
\*     store_notifications(advisor_id, notification_type, items)
RECURSIVE store_types(_, _, _)
store_types(advisor_id, notifications, store) ==
    IF Len(notifications) = 0 THEN store
    ELSE store_types(advisor_id, Tail(notifications),
                     store_notifications(advisor_id, Head(notifications)[1],
                                         Head(notifications)[2], store))

\* for advisor_id, notifications in processed_data.items(): ...
RECURSIVE store_processed(_, _)
store_processed(processed_data, store) ==
    IF Len(processed_data) = 0 THEN store
    ELSE store_processed(Tail(processed_data),
                         store_types(Head(processed_data)[1],
                                     Head(processed_data)[2].v, store))

\* the workflow stores what process_emails returned
StoreProcessed ==
    /\ pc = "processed" /\ ret.exc = "none"
    /\ NOTIFICATIONS_STORE' = store_processed(ret.val.v, NOTIFICATIONS_STORE)
    /\ op' = "store_notifications"
    /\ pc' = "stored"
    /\ UNCHANGED <<arg, ret, accumulator, tokens, ncalls, heapVars, threadVars,
                   insightVars>>

\* digest = build_digest(advisor_id, digest_date)
BuildWorkflowDigest ==
    /\ pc = "stored"
    /\ \E a \in {"A001", "A002", "A003"} : \E d \in Dates :
        LET r == build_digest(a, d, NOTIFICATIONS_STORE) IN
        /\ arg' = [arg EXCEPT !.advisor_id = a, !.digest_date = d]
        /\ ret' = [exc |-> r.exc, val |-> r.val]
        /\ NOTIFICATIONS_STORE' = r.store
    /\ op' = "build_digest"
    /\ pc' = "built"
    /\ UNCHANGED <<accumulator, tokens, ncalls, heapVars, threadVars, insightVars>>

NextWorkflow ==
    \/ ReceiveEmail
    \/ CallProcessEmails
    \/ StoreProcessed
    \/ BuildWorkflowDigest

SpecWorkflow == InitWorkflow /\ [][NextWorkflow]_vars

-----------------------------------------------------------------------------
(* the result of process_emails and the digest made of it, under SpecWorkflow *)

\* the value of each member of EmailType
C21_Value(member) ==
    CASE member = "MARGIN_CALL" -> "margin_call"
      [] member = "RETIREMENT_CONTRIBUTION" -> "retirement_contribution"
      [] member = "CORPORATE_ACTION" -> "corporate_action"
      [] member = "OUTGOING_ACCOUNT_TRANSFER" -> "outgoing account transfer"

\* the ids of the items of a list, in its order
C21_Ids(items) == [i \in 1..Len(items) |-> items[i].id]

\* the emails of a batch for an advisor and of a type, in the order of the batch
C21_EmailsOf(emails, advisor_id, member) ==
    SelectSeq(emails, LAMBDA e : e.recipient_id = advisor_id /\ e.type = member)

\* the number of notifications in a result
C21_Count(items) ==
    Sum([i \in 1..Len(items) |->
            Sum([j \in 1..Len(items[i][2].v) |-> Len(items[i][2].v[j][2])])])

C29_ListOf(digest, member) ==
    CASE member = "MARGIN_CALL" -> digest.margin_calls
      [] member = "RETIREMENT_CONTRIBUTION" -> digest.retirement_contributions
      [] member = "CORPORATE_ACTION" -> digest.corporate_actions
      [] member = "OUTGOING_ACCOUNT_TRANSFER" -> digest.outgoing_account_transfers

\* C29: after the result of process_emails has been stored type by type, the
\* digest built for a known advisor lists, for each of the four types, the
\* emails of the batch addressed to the advisor that are of this type, in
\* their order, and nothing else.
C29_WorkflowKeysAgree ==
    (pc = "built" /\ ret.exc = "none") =>
        \A member \in EmailTypeMembers :
            C21_Ids(C29_ListOf(ret.val, member))
               = C21_Ids(C21_EmailsOf(arg.emails, arg.advisor_id, member))

\* a digest with an outgoing account transfer and a margin call of the batch,
\* and without the email of the other advisor
C29_Witness ==
    /\ pc = "built" /\ ret.exc = "none" /\ arg.advisor_id = "A001"
    /\ Len(arg.emails) = 3
    /\ C21_Ids(ret.val.outgoing_account_transfers) = <<"e1">>
    /\ C21_Ids(ret.val.margin_calls) = <<"e3">>
    /\ arg.emails[2].recipient_id = "A002"


-----------------------------------------------------------------------------
(* email_sender: send_digest_email, _generate_html_content and
   _generate_fallback_html.  HTML is kept as the sequence of its elements,
   each a tuple of the tag and the texts put into it. *)

\* what the module reads from the environment when it is imported, and how
\* the template files and the mail server behave: the template renders, or
\* get_template or render raises a jinja2 TemplateError (TemplateNotFound,
\* UndefinedError) or another error (OSError, TypeError)
Environs ==
    [SMTP_SERVER : {"smtp.gmail.com", ""}, SMTP_USERNAME : {"user", ""},
     SMTP_PASSWORD : {"secret", ""}, SMTP_PORT : {465, 587},
     template : {"renders", "TemplateNotFound", "OSError", "UndefinedError",
                 "TypeError"},
     smtp : {"accepts", "SMTPException"}]

\* except jinja2.exceptions.TemplateError
TemplateError == {"TemplateNotFound", "UndefinedError"}

\* generate_executive_summary(digest) with no client and no key: its line 40
\* subscripts digest.summary_stats
generate_executive_summary(digest) ==
    IF \E i \in 1..Len(digest.summary_stats.v) :
          digest.summary_stats.v[i][1] = "total_notifications"
    THEN GenericSummary(digest)
    ELSE Raise("KeyError")

\* the elements of a section: its heading and one element per notification,
\* nothing for an empty list
Section(heading, items) ==
    IF Len(items) = 0 THEN <<>>
    ELSE <<<<"h2", heading>>>> \o [i \in 1..Len(items) |-> <<"h3", items[i].client_name>>]

\* def _generate_fallback_html(digest)
_generate_fallback_html(digest) ==
    Only({IF executive_summary.exc # "none" THEN executive_summary
          ELSE Ok(<<<<"h1", "Financial Digest for", digest.date>>,
                    <<"p", "Hello", digest.advisor_name>>,
                    <<"h2", "Summary">>,
                    <<"p", "Total notifications:",
                      DictGet(digest.summary_stats, "total_notifications", PyInt(0)).v>>,
                    <<"p", "Margin calls:", Len(digest.margin_calls)>>,
                    <<"p", "Retirement contributions:",
                      Len(digest.retirement_contributions)>>,
                    <<"p", "Corporate actions:", Len(digest.corporate_actions)>>,
                    <<"p", "Outgoing account transfers:",
                      Len(digest.outgoing_account_transfers)>>,
                    <<"summary", executive_summary.val>> >>
                  \o Section("Margin Calls", digest.margin_calls)
                  \o Section("Retirement Contributions", digest.retirement_contributions)
                  \o Section("Corporate Actions", digest.corporate_actions)
                  \o Section("Outgoing Account Transfers",
                             digest.outgoing_account_transfers)
                  \o (IF Len(digest.ai_insights) = 0 THEN <<>>
                      ELSE <<<<"h2", "AI Insights">>>>
                           \o [i \in 1..Len(digest.ai_insights) |->
                                 <<"h3", digest.ai_insights[i].title>>])
                  \o <<<<"p", "This is an automated digest email.">>>>) :
             executive_summary \in {generate_executive_summary(digest)}})

\* the try block of _generate_html_content: get_template, the executive
\* summary, render
RenderTemplate(digest, env) ==
    IF env.template \in {"TemplateNotFound", "OSError"} THEN Raise(env.template)
    ELSE Only({IF executive_summary.exc # "none" THEN executive_summary
               ELSE IF env.template # "renders" THEN Raise(env.template)
               ELSE Ok(<<<<"template", "base_digest.html", digest.advisor_name,
                           digest.date, executive_summary.val>>>>) :
                  executive_summary \in {generate_executive_summary(digest)}})

\* def _generate_html_content(digest)
_generate_html_content(digest, env) ==
    Only({IF html_content.exc \in TemplateError THEN _generate_fallback_html(digest)
          ELSE html_content :
             html_content \in {RenderTemplate(digest, env)}})

\* models.EmailDeliveryResult(advisor_id=..., advisor_email=..., success=..., message=...)
EmailDeliveryResult(advisor_id, advisor_email, success, message) ==
    [advisor_id |-> advisor_id, advisor_email |-> advisor_email,
     success |-> success, message |-> message]

\* the call aiosmtplib.send(message, hostname=..., ...)
SmtpSend(digest, html_content, env) ==
    [subject |-> <<"Financial Digest for ", digest.date>>,
     to |-> digest.advisor_email, html |-> html_content,
     hostname |-> env.SMTP_SERVER, port |-> env.SMTP_PORT,
     username |-> env.SMTP_USERNAME, password |-> env.SMTP_PASSWORD,
     use_tls |-> env.SMTP_PORT = 465, start_tls |-> env.SMTP_PORT # 465]

\* async def send_digest_email(digest): the result and the sends attempted
send_digest_email(digest, env) ==
    Only({IF html_content.exc # "none"
          THEN [val |-> EmailDeliveryResult(digest.advisor_id, digest.advisor_email, FALSE,
                              <<"Error sending email: ", html_content.exc>>),
                sent |-> <<>>]
          ELSE IF "" \in {env.SMTP_SERVER, env.SMTP_USERNAME, env.SMTP_PASSWORD}
          THEN [val |-> EmailDeliveryResult(digest.advisor_id, digest.advisor_email, FALSE,
                              <<"SMTP configuration not complete">>),
                sent |-> <<>>]
          ELSE IF env.smtp # "accepts"
          THEN [val |-> EmailDeliveryResult(digest.advisor_id, digest.advisor_email, FALSE,
                              <<"Error sending email: ", "Connection failed">>),
                sent |-> <<SmtpSend(digest, html_content.val, env)>>]
          ELSE [val |-> EmailDeliveryResult(digest.advisor_id, digest.advisor_email, TRUE,
                              <<"Email sent successfully">>),
                sent |-> <<SmtpSend(digest, html_content.val, env)>>] :
             html_content \in {_generate_html_content(digest, env)}})

\* the digests that are sent: those with statistics, and one as a client of
\* the API posts it, with the default summary_stats
SentDigests ==
    Digests \cup {AdvisorDigest("A002", ADVISOR_DATA["A002"].name,
                                ADVISOR_DATA["A002"].email, "2025-01-16")}

InitSender ==
    /\ op = "send_digest_email"
    /\ arg = NoDigest
    /\ pc = "idle"
    /\ ret = Pending
    /\ environ \in Environs
    /\ client = "None"
    /\ digest_summary = PyNone
    /\ prompt = NoPrompt
    /\ sent = <<>>
    /\ accumulator = {}
    /\ tokens = {}
    /\ ncalls = 0
    /\ heap = <<>>
    /\ root = PyNone
    /\ threads = <<>>
    /\ accs = <<>>
    /\ NOTIFICATIONS_STORE = <<>>

\* result = await send_digest_email(digest)
CallSendDigestEmail ==
    /\ pc = "idle"
    /\ \E digest \in SentDigests :
        LET r == send_digest_email(digest, environ) IN
        /\ arg' = digest
        /\ ret' = Ok(r.val)
        /\ sent' = sent \o r.sent
    /\ op' = "send_digest_email"
    /\ pc' = "return"
    /\ UNCHANGED <<accumulator, tokens, ncalls, heapVars, threadVars,
                   NOTIFICATIONS_STORE, client, environ, digest_summary, prompt>>

\* html = _generate_html_content(digest)
CallGenerateHtmlContent ==
    /\ pc = "idle"
    /\ \E digest \in SentDigests :
        /\ arg' = digest
        /\ ret' = _generate_html_content(digest, environ)
    /\ op' = "_generate_html_content"
    /\ pc' = "return"
    /\ UNCHANGED <<accumulator, tokens, ncalls, heapVars, threadVars,
                   NOTIFICATIONS_STORE, insightVars>>

NextSender ==
    \/ CallSendDigestEmail
    \/ CallGenerateHtmlContent

SpecSender == InitSender /\ [][NextSender]_vars


-----------------------------------------------------------------------------
(* the delivery result and the fallback HTML, under SpecSender *)

\* the SMTP server, the username or the password is missing
C22_ConfigMissing == "" \in {environ.SMTP_SERVER, environ.SMTP_USERNAME, environ.SMTP_PASSWORD}

\* C22: send_digest_email returns, never raises; the result names the
\* digest's advisor id and email; success only if exactly one send was
\* attempted and it did not fail; with the server, username or password
\* missing no send is attempted and the result is a failure that names the
\* configuration; a send that fails gives a failure with the error text.
C22_DeliveryResult ==
    Called("send_digest_email") =>
        /\ ret.exc = "none"
        /\ ret.val.advisor_id = arg.advisor_id
        /\ ret.val.advisor_email = arg.advisor_email
        /\ ret.val.success => (Len(sent) = 1 /\ environ.smtp = "accepts")
        /\ C22_ConfigMissing =>
              /\ sent = <<>>
              /\ ~ret.val.success
              /\ ret.val.message = <<"SMTP configuration not complete">>
        /\ (Len(sent) = 1 /\ environ.smtp # "accepts") =>
              /\ ~ret.val.success
              /\ ret.val.message[Len(ret.val.message)] = "Connection failed"

\* the same where the HTML content has been generated
DeliveryResultWithContent ==
    (Called("send_digest_email") /\ _generate_html_content(arg, environ).exc = "none") =>
        /\ ret.exc = "none"
        /\ ret.val.advisor_id = arg.advisor_id
        /\ ret.val.advisor_email = arg.advisor_email
        /\ ret.val.success <=> (Len(sent) = 1 /\ environ.smtp = "accepts")
        /\ Len(sent) <= 1
        /\ C22_ConfigMissing =>
              /\ sent = <<>>
              /\ ~ret.val.success
              /\ ret.val.message = <<"SMTP configuration not complete">>
        /\ (Len(sent) = 1 /\ environ.smtp # "accepts") =>
              /\ ~ret.val.success
              /\ ret.val.message[Len(ret.val.message)] = "Connection failed"

\* and in every case: a result for the advisor, success only after one send
\* that did not fail, no send with the configuration missing
DeliveryNeverRaises ==
    Called("send_digest_email") =>
        /\ ret.exc = "none"
        /\ ret.val.advisor_id = arg.advisor_id
        /\ ret.val.advisor_email = arg.advisor_email
        /\ ret.val.success => (Len(sent) = 1 /\ environ.smtp = "accepts")
        /\ C22_ConfigMissing => (sent = <<>> /\ ~ret.val.success)

\* an email has been sent; a send has failed; a send was not attempted
DeliverySucceeded == Called("send_digest_email") /\ ret.val.success /\ Len(sent) = 1

\* get_template or render has raised
C23_TemplateRaised ==
    \/ environ.template \in {"TemplateNotFound", "OSError"}
    \/ /\ environ.template \in {"UndefinedError", "TypeError"}
       /\ generate_executive_summary(arg).exc = "none"

\* html holds the heading with the date, the advisor's name and the client
\* name of every notification of the digest
C23_IsFallback(html, digest) ==
    /\ \E i \in 1..Len(html) : html[i] = <<"h1", "Financial Digest for", digest.date>>
    /\ \E i \in 1..Len(html) : html[i] = <<"p", "Hello", digest.advisor_name>>
    /\ \A items \in {digest.margin_calls, digest.retirement_contributions,
                     digest.corporate_actions, digest.outgoing_account_transfers} :
       \A k \in 1..Len(items) :
          \E i \in 1..Len(html) : html[i] = <<"h3", items[k].client_name>>

\* C23: when loading or rendering the template raises an error,
\* _generate_html_content returns, and what it returns is the fallback HTML
\* with the date heading, the advisor's name and the client name of every
\* notification of the digest.
C23_FallbackOnError ==
    (Called("_generate_html_content") /\ C23_TemplateRaised) =>
        /\ ret.exc = "none"
        /\ C23_IsFallback(ret.val, arg)

\* the same for the errors that are jinja2 template errors, for a digest
\* with statistics
FallbackOnTemplateError ==
    (/\ Called("_generate_html_content") /\ C23_TemplateRaised
     /\ environ.template \in TemplateError
     /\ generate_executive_summary(arg).exc = "none") =>
        /\ ret.exc = "none"
        /\ C23_IsFallback(ret.val, arg)

\* the fallback has been returned for a digest with notifications
FallbackReturned ==
    /\ Called("_generate_html_content") /\ environ.template = "UndefinedError"
    /\ ret.exc = "none" /\ Len(arg.margin_calls) = 2
    /\ C23_IsFallback(ret.val, arg)


-----------------------------------------------------------------------------
(* main: the four /api endpoints behind get_current_active_user.  A token is
   kept as what jwt.decode finds in it: whether the signature is the one of
   SECRET_KEY, whether exp has passed, and the sub claim. *)

\* USERS_DB
USERS_DB == [u \in {"admin"} |-> [username |-> "admin", disabled |-> FALSE]]

\* an Authorization header: none, or a scheme and a token
Token(scheme, signed, expired, sub) ==
    [scheme |-> scheme, signed |-> signed, expired |-> expired, sub |-> sub]

\* the headers requests come with: none, a token signed with another key, an
\* expired one, one without sub, with a sub that is no string, for a user
\* that is not in USERS_DB, one under another scheme, and one for admin
Tokens ==
    {Token("", FALSE, FALSE, PyNone),
     Token("Bearer", FALSE, FALSE, PyStr("admin")),
     Token("Bearer", TRUE, TRUE, PyStr("admin")),
     Token("Bearer", TRUE, FALSE, PyNone),
     Token("Bearer", TRUE, FALSE, PyInt(7)),
     Token("Bearer", TRUE, FALSE, PyStr("ghost")),
     Token("Basic", TRUE, FALSE, PyStr("admin")),
     Token("Bearer", TRUE, FALSE, PyStr("admin"))}

\* a response: the status code and the detail or message
Response(status_code, detail) == [status_code |-> status_code, detail |-> detail]

\* HTTPException(status_code=..., detail=...)
HTTPException(status_code, detail) ==
    [exc |-> "HTTPException", val |-> Response(status_code, detail)]

\* oauth2_scheme = OAuth2PasswordBearer(tokenUrl="token"): the token of a
\* Bearer header
oauth2_scheme(authorization) ==
    IF authorization.scheme = "Bearer" THEN Ok(authorization)
    ELSE HTTPException(401, "Not authenticated")

\* a jwt.decode that does not verify the signature
jwt_decode_unverified(token) ==
    IF token.expired THEN Raise("JWTError")
    ELSE IF token.sub.t \notin {"str", "none"} THEN Raise("JWTError")
    ELSE Ok(token.sub)

\* jwt.decode(token, SECRET_KEY, algorithms=[ALGORITHM]) and payload.get("sub"):
\* JWTError for another signature, a passed exp or a sub that is no string
jwt_decode(token) ==
    IF ~token.signed THEN Raise("JWTError")
    ELSE IF token.expired THEN Raise("JWTError")
    ELSE IF token.sub.t \notin {"str", "none"} THEN Raise("JWTError")
    ELSE Ok(token.sub)

\* def get_user(db, username)
get_user(db, username) ==
    IF username \in DOMAIN db THEN Ok(db[username]) ELSE Ok(PyNone)

\* async def get_current_user(token)
get_current_user(token) ==
    Only({IF username.exc # "none" \/ username.val = PyNone
          THEN HTTPException(401, "Could not validate credentials")
          ELSE IF get_user(USERS_DB, username.val.v).val = PyNone
          THEN HTTPException(401, "Could not validate credentials")
          ELSE get_user(USERS_DB, username.val.v) :
             username \in {jwt_decode(token)}})

\* async def get_current_active_user(current_user), with its dependencies
get_current_active_user(authorization) ==
    Only({IF token.exc # "none" THEN token
          ELSE Only({IF current_user.exc # "none" THEN current_user
                     ELSE IF current_user.val.disabled
                     THEN HTTPException(400, "Inactive user")
                     ELSE current_user :
                        current_user \in {get_current_user(token.val)}}) :
             token \in {oauth2_scheme(authorization)}})

\* the environment of the sender while the API runs
ApiEnviron ==
    [SMTP_SERVER |-> "smtp.gmail.com", SMTP_USERNAME |-> "user",
     SMTP_PASSWORD |-> "secret", SMTP_PORT |-> 587,
     template |-> "TemplateNotFound", smtp |-> "accepts"]

\* what a handler has done is kept in the order it was done: the handler
\* entered, the emails processed, the digests built, the emails sent
Entered(endpoint) == <<"handler", endpoint>>

\* async def api_process_emails(email_data, current_user)
api_process_emails(body) ==
    Only({[val |-> IF result.exc # "none" THEN Response(500, result.exc)
                   ELSE Response(200, "success"),
           done |-> <<Entered("/api/process-emails"),
                      <<"process_emails", Len(body.emails)>> >>] :
             result \in {process_emails(body)}})

\* the loop of api_generate_digests over request.advisor_ids
RECURSIVE generate_digests(_, _, _)
generate_digests(body, i, store) ==
    IF i > Len(body.advisor_ids) THEN [exc |-> "none", done |-> <<>>]
    ELSE Only({IF digest.exc # "none"
               THEN [exc |-> digest.exc, done |-> <<<<"build_digest", body.advisor_ids[i]>>>>]
               ELSE Only({[exc |-> rest.exc,
                           done |-> <<<<"build_digest", body.advisor_ids[i]>>>>
                                    \o (IF body.include_ai_insights
                                        THEN <<<<"generate_insights", body.advisor_ids[i]>>>>
                                        ELSE <<>>)
                                    \o rest.done] :
                             rest \in {generate_digests(body, i + 1, store)}}) :
                  digest \in {build_digest(body.advisor_ids[i], body.date, store)}})

\* async def api_generate_digests(request, current_user)
api_generate_digests(body, store) ==
    Only({[val |-> IF r.exc # "none" THEN Response(500, r.exc)
                   ELSE Response(200, "success"),
           done |-> <<Entered("/api/generate-digests")>> \o r.done] :
             r \in {generate_digests(body, 1, store)}})

\* the loop of api_send_digests over the digests
RECURSIVE send_digests(_, _)
send_digests(digests, i) ==
    IF i > Len(digests) THEN <<>>
    ELSE <<<<"send_digest_email", digests[i].advisor_id,
             send_digest_email(digests[i], ApiEnviron).val.success>>>>
         \o [k \in 1..Len(send_digest_email(digests[i], ApiEnviron).sent) |->
                <<"smtp", digests[i].advisor_email>>]
         \o send_digests(digests, i + 1)

\* async def api_send_digests(digests, current_user)
api_send_digests(body) ==
    [val |-> Response(200, "success"),
     done |-> <<Entered("/api/send-digests")>> \o send_digests(body.digests, 1)]

\* async def api_digest_history(advisor_id, start_date, end_date, current_user)
api_digest_history(body) ==
    [val |-> Response(200, "success"), done |-> <<Entered("/api/digest-history")>>]

\* the endpoints behind Depends(get_current_active_user)
Endpoints ==
    {"/api/process-emails", "/api/generate-digests", "/api/send-digests",
     "/api/digest-history"}

\* a request body: one that the endpoint's model rejects, or its fields
Body(valid, emails, advisor_ids, include_ai_insights, digests) ==
    [valid |-> valid, emails |-> emails, advisor_ids |-> advisor_ids,
     date |-> "2025-01-15", include_ai_insights |-> include_ai_insights,
     digests |-> digests]

\* the bodies that are sent to an endpoint
Bodies(endpoint) ==
    {Body(FALSE, <<>>, <<>>, FALSE, <<>>)} \cup
    CASE endpoint = "/api/process-emails" ->
           {Body(TRUE, <<email>>, <<>>, FALSE, <<>>) :
               email \in {e \in Emails(1) : e.recipient_id = "A001"}}
      [] endpoint = "/api/generate-digests" ->
           {Body(TRUE, <<>>, ids, ai, <<>>) :
               ids \in {<<"A001">>, <<"A001", "A999">>, <<"A002", "A003">>},
               ai \in BOOLEAN}
      [] endpoint = "/api/send-digests" ->
           {Body(TRUE, <<>>, <<>>, FALSE, <<NoDigest>>),
            Body(TRUE, <<>>, <<>>, FALSE, <<NoDigest, NoDigest>>)}
      [] endpoint = "/api/digest-history" ->
           {Body(TRUE, <<>>, <<"A001">>, FALSE, <<>>)}

\* the application answers a request: the dependencies first, then the
\* validation of the body, then the handler
Serve(endpoint, authorization, body, store) ==
    Only({IF current_user.exc # "none"
          THEN [val |-> current_user.val, done |-> <<>>]
          ELSE IF ~body.valid
          THEN [val |-> Response(422, "Unprocessable Entity"), done |-> <<>>]
          ELSE CASE endpoint = "/api/process-emails" -> api_process_emails(body)
                 [] endpoint = "/api/generate-digests" -> api_generate_digests(body, store)
                 [] endpoint = "/api/send-digests" -> api_send_digests(body)
                 [] endpoint = "/api/digest-history" -> api_digest_history(body) :
             current_user \in {get_current_active_user(authorization)}})

\* the most requests in a run
MaxRequests == 2

\* no request yet
NoRequestYet ==
    [endpoint |-> "", authorization |-> Token("", FALSE, FALSE, PyNone),
     body |-> Body(FALSE, <<>>, <<>>, FALSE, <<>>)]

InitApi ==
    /\ op = "request"
    /\ arg = NoRequestYet
    /\ pc = "idle"
    /\ Fresh

\* a client sends a request and gets the response
Request ==
    /\ pc = "idle" /\ ncalls < MaxRequests
    /\ \E endpoint \in Endpoints : \E authorization \in Tokens :
       \E body \in Bodies(endpoint) :
        LET r == Serve(endpoint, authorization, body, NOTIFICATIONS_STORE) IN
        /\ arg' = [endpoint |-> endpoint, authorization |-> authorization, body |-> body]
        /\ ret' = Ok(r.val)
        /\ sent' = sent \o r.done
    /\ pc' = "return"
    /\ ncalls' = ncalls + 1
    /\ UNCHANGED <<op, accumulator, tokens, heapVars, threadVars, NOTIFICATIONS_STORE,
                   client, environ, digest_summary, prompt>>

\* the client goes on
AfterResponse ==
    /\ pc = "return" /\ op = "request"
    /\ pc' = "idle"
    /\ arg' = NoRequestYet
    /\ ret' = Pending
    /\ UNCHANGED <<op, accumulator, tokens, ncalls, heapVars, threadVars,
                   NOTIFICATIONS_STORE, insightVars>>

NextApi ==
    \/ Request
    \/ AfterResponse

SpecApi == InitApi /\ [][NextApi]_vars

-----------------------------------------------------------------------------
(* who gets to a handler, under SpecApi *)

\* the header carries a Bearer token with the signature of the key, not
\* expired, whose sub is a user of USERS_DB that is not disabled
C24_Authenticated(authorization) ==
    /\ authorization.scheme = "Bearer"
    /\ authorization.signed /\ ~authorization.expired
    /\ authorization.sub.t = "str"
    /\ authorization.sub.v \in DOMAIN USERS_DB
    /\ ~USERS_DB[authorization.sub.v].disabled

\* C24: a request to one of the four endpoints gets to its handler, and has
\* emails processed, digests built or emails sent, only with a token that
\* decodes to an existing user that is not disabled; every other request is
\* answered 401 and leaves what was done and stored as it was.
C24_AuthRequired ==
    [][(pc = "idle" /\ pc' = "return") =>
          /\ sent' # sent => C24_Authenticated(arg'.authorization)
          /\ ~C24_Authenticated(arg'.authorization) =>
                /\ ret'.val.status_code = 401
                /\ sent' = sent
                /\ NOTIFICATIONS_STORE' = NOTIFICATIONS_STORE
                /\ <<client, environ, digest_summary, prompt>>'
                      = <<client, environ, digest_summary, prompt>>
          /\ (C24_Authenticated(arg'.authorization) /\ arg'.body.valid) =>
                /\ Len(sent') > Len(sent)
                /\ sent'[Len(sent) + 1] = <<"handler", arg'.endpoint>>]_vars

\* after a request of admin that had two emails sent, a request with a token
\* signed by another key for the same endpoint was answered 401
C24_Witness ==
    /\ pc = "return" /\ op = "request"
    /\ ~arg.authorization.signed /\ arg.authorization.scheme = "Bearer"
    /\ arg.endpoint = "/api/send-digests" /\ arg.body.valid
    /\ ret.val.status_code = 401
    /\ Len(sent) = 5 /\ sent[1] = <<"handler", "/api/send-digests">>
    /\ sent[5][1] = "smtp"

====
